---- MODULE Spec2Model ----
(***************************************************************************)
(* Model of the frame-by-frame inference pipeline of HackTitans:           *)
(*   - useActivityLogic (squats, sit-ups, wall-sit, broad jump) as driven  *)
(*     by the Assessment page (Start / Stop / Reset / activity selector),  *)
(*   - the PushUpTest page,                                                *)
(*   - the scoring functions of scoringSystem.js,                          *)
(*   - the reaction challenge, punch and kick detectors of CombatReaction, *)
(*   - the video-cut detector of cheatDetection.js.                        *)
(*                                                                         *)
(* Units.  Angles are whole degrees; an average of two angles is kept      *)
(* doubled (l + r) so that no fraction is needed.  Normalised image        *)
(* coordinates are kept in hundredths (0.03 is 3) for the activity         *)
(* detectors and in tenths for the video-cut detector.  Math.round(p/q)    *)
(* for p >= 0 is RoundDiv(p, q).  Floating-point rounding error of the     *)
(* JavaScript arithmetic is not modelled.                                  *)
(***************************************************************************)
EXTENDS Integers, Sequences, FiniteSets, TLC

VARIABLES
    \* ---- which component is mounted (App.jsx routes) -------------------
    page,
    sessions,           \* number of sessions started since the page was mounted
    \* ---- usePoseDetection / clock --------------------------------------
    landmarks,          \* the frame last delivered (NoFrame is null)
    now,                \* Date.now() / performance.now(), in units of 500 ms
    \* ---- useActivityLogic + Assessment --------------------------------
    activity,           \* useState('squats')
    metrics,            \* useState({...})
    formScores,         \* useState([])
    isActive,           \* useState(false)
    cbFormScores,       \* formScores as captured by the processFrame closure
    phaseRef,           \* useRef('idle')
    startTimeRef,       \* useRef(null); 0 is null
    stableFramesRef,    \* useRef(0)
    totalFramesRef,     \* useRef(0)
    jumpStartRef,       \* useRef(null): NoJump or the takeoff hip x
    prevHipYRef,        \* useRef(null): NoHip or the previous hip y
    finalResults,       \* Assessment: record handed to saveTestResult
    script,             \* scripted driver: the frames still to be fed
    \* ---- PushUpTest ----------------------------------------------------
    puActive, puReps, puIncomplete, puFormScore, puTimer, puPhaseRef,
    puFormScoresRef, puRepTimes, puFinished, puCheatAlerts, puShowRedOverlay,
    puSessFrames,       \* frames processed since handleStart
    \* ---- cheatDetection.js module state --------------------------------
    prevLandmarkPositions,  \* module-level let; NoSnap is null
    \* ---- scoringSystem.js driver --------------------------------------
    score,                  \* the last call: function, arguments, returned value
    \* ---- CombatReaction.jsx --------------------------------------------
    perfNow,            \* performance.now(), in units of 100 ms
    poseLm,             \* pose.landmarks of the mounted mode (NoPose is null)
    results,            \* CombatReaction: useState([]), fed by addResult
    \* PunchSpeedMode
    punchStarted, punchStateRef, punchStartRef, maxVelocityRef, punchPrevWristRef,
    \* KickHeightMode
    kickStarted, baselineRef, kickStateRef, maxHeightRef, kickStartRef,
    kickTimers,         \* pending setTimeout of handleStart: the times they are due
    \* ReactionChallengeMode
    rcStarted, rcPhase, rcCurrentPrompt, rcReactionTime, rcRound,
    promptTimeRef, rcPrevWristRef, detectedRef, waitTimerRef,
    rcTimers,           \* pending setTimeout calls: kind, time due, arming round
    rcEffectDue,        \* the movement effect is scheduled after a render
    rcStarts,           \* number of startRound calls so far
    rcShownAt,          \* time at which each stimulus was displayed
    cdResult,           \* what the last runCheatDetection call returned; `clean`
                        \* tells whether its frame by itself passed every check
    cdPrev,             \* verdict of the call before it
    online,             \* navigator.onLine
    dbResults,          \* IndexedDB store testResults: record id |-> record
    dbQueue,            \* IndexedDB store syncQueue: set of queued items
    saves,              \* the saveTestResult calls made so far
    syncs,              \* the syncResults calls made so far
    everQueued,         \* ids of the results ever added to the sync queue
    submitted,          \* ids of the results that were part of a successful submission
    vjPhase,            \* VerticalJump: idle, calibrating, ready, jumping, landed
    vjStandingRef,      \* standingRef (lowest wrist y while calibrating; -1 is null)
    vjPeakRef,          \* peakRef (-1 is null)
    vjPrevHipY,         \* prevHipY (-1 is null)
    vjSamples,          \* length of stabilityFrames
    vjJumpHeight,       \* jumpHeight (cm)
    vjPowerScore,       \* powerScore
    vjAttempts,         \* attempts
    vjBestJump,         \* bestJump
    vjShowRedOverlay,   \* showRedOverlay
    vjSeen,             \* hip y of the frames seen in the current jumping phase
    drPhase,            \* TTestDrill / SprintTest: idle, ready, running, finished
    drPrev,             \* prevHipX (T-test) / prevAnkleY (sprint), -1 is null
    drDirRef,           \* T-test dirRef: "" (null), "left", "right"
    drMovingUp,         \* sprint movingUp
    drCount,            \* dirCountRef (T-test) / strideCountRef (sprint)
    drShowRedOverlay,   \* showRedOverlay
    drLastSign,         \* sign of the last movement beyond the dead-zone since Go (0: none)
    drReversals,        \* sign reversals of such movements since Go
    btRunning,          \* BeepTest: isRunning
    btLevel,            \* currentLevel
    btShuttle,          \* currentShuttle
    btTotal,            \* totalShuttles
    btFinished,         \* finished
    btElapsed,          \* elapsed
    btTimers,           \* pending setTimeout callbacks
    btBeepRef,          \* beepRef: the last beep timeout set
    btStopped           \* stopTest was clicked since the last start

poseVars == <<landmarks, now>>
assessVars == <<activity, metrics, formScores, isActive, cbFormScores, phaseRef,
                startTimeRef, stableFramesRef, totalFramesRef, jumpStartRef,
                prevHipYRef, finalResults, script>>
pushVars == <<puActive, puReps, puIncomplete, puFormScore, puTimer, puPhaseRef,
              puFormScoresRef, puRepTimes, puFinished, puCheatAlerts,
              puShowRedOverlay, puSessFrames>>
cheatVars == <<prevLandmarkPositions>>

scoreVars == <<score>>
punchVars == <<punchStarted, punchStateRef, punchStartRef, maxVelocityRef, punchPrevWristRef>>
kickVars == <<kickStarted, baselineRef, kickStateRef, maxHeightRef, kickStartRef, kickTimers>>
reactVars == <<rcStarted, rcPhase, rcCurrentPrompt, rcReactionTime, rcRound, promptTimeRef,
               rcPrevWristRef, detectedRef, waitTimerRef, rcTimers, rcEffectDue, rcStarts,
               rcShownAt>>
combatVars == <<perfNow, poseLm, results, punchVars, kickVars, reactVars>>

detectVars == <<cdResult, cdPrev>>
storeVars == <<online, dbResults, dbQueue, saves, syncs, everQueued, submitted>>
vjVars == <<vjPhase, vjStandingRef, vjPeakRef, vjPrevHipY, vjSamples, vjJumpHeight,
           vjPowerScore, vjAttempts, vjBestJump, vjShowRedOverlay, vjSeen>>
drillVars == <<drPhase, drPrev, drDirRef, drMovingUp, drCount, drShowRedOverlay,
              drLastSign, drReversals>>
beepVars == <<btRunning, btLevel, btShuttle, btTotal, btFinished, btElapsed, btTimers,
             btBeepRef, btStopped>>
moreVars == <<vjVars, drillVars, beepVars>>
libVars == <<detectVars, storeVars, moreVars>>

vars == <<page, sessions, poseVars, assessVars, pushVars, cheatVars, scoreVars, combatVars,
          libVars>>

-----------------------------------------------------------------------------
(* Bounds *)
MaxFrames == 4        \* frames processed in one session
ScriptLen == 5        \* frames of a scripted session
MaxClock == 2         \* the clock runs from 1 to MaxClock (units of 500 ms)
MaxSessions == 2      \* sessions started on one page
MaxHalf == 3          \* push-up reps in one half of the minute (scoring inputs)
MaxPerfClock == 60    \* performance.now() runs from 0 to MaxPerfClock (units of 100 ms)
MaxResults == 2       \* punches / kicks recorded on the combat page
MaxRounds == 3        \* reaction-challenge rounds started
MaxTicks == 1         \* seconds of the push-up countdown that are explored
MaxSaves == 2         \* saveTestResult calls
MaxSyncs == 2         \* syncResults calls
MaxWallClock == 6     \* the clock of a scripted wall-sit session (units of 500 ms)

-----------------------------------------------------------------------------
(* Numeric helpers *)
Abs(x) == IF x < 0 THEN -x ELSE x
Min(a, b) == IF a < b THEN a ELSE b
Max(a, b) == IF a > b THEN a ELSE b
\* Math.round(p / q) for p >= 0, q > 0 (round half up)
RoundDiv(p, q) == (2 * p + q) \div (2 * q)
RECURSIVE SumSeq(_)
SumSeq(s) == IF s = <<>> THEN 0 ELSE Head(s) + SumSeq(Tail(s))

NoAngle == -1
NoJump == [set |-> FALSE, hipX |-> 0]
NoHip == -1
NoSnap == [set |-> FALSE, noseX |-> 0, noseY |-> 0, sX |-> 0, sY |-> 0]
\* a frame: `set` is false for null landmarks and `count` is the length of the
\* landmark array.  l, r are the left/right angle the activity looks at (knee
\* for squats, wall-sit and broad jump, torso for sit-ups, elbow for
\* push-ups), body the shoulder-hip-ankle angle.  Coordinates and
\* visibilities are in hundredths: hx, hy the hip midpoint (both hips at
\* height hy), ax, ay the ankle midpoint, ky the left knee height, nx, ny the
\* nose, sx, sy the left shoulder, sw and hw the shoulder and hip widths,
\* nv, ev, sv, av, hv, kv, fv the visibility of nose, eyes, shoulders, elbows,
\* hips, knees and ankles; wy the height of the higher wrist.
NoFrame == [set |-> FALSE, count |-> 0, l |-> 0, r |-> 0, body |-> 0, hx |-> 0, hy |-> 0,
            ax |-> 0, ay |-> 0, ky |-> 0, nx |-> 0, ny |-> 0, sx |-> 0, sy |-> 0,
            sw |-> 0, hw |-> 0, nv |-> 0, ev |-> 0, sv |-> 0, av |-> 0, hv |-> 0,
            kv |-> 0, fv |-> 0, wy |-> 0]
\* a full frame of a single, fully visible person
MkFrame(l, r, body, hx, hy, ax, nx, ny) ==
    [set |-> TRUE, count |-> 33, l |-> l, r |-> r, body |-> body, hx |-> hx, hy |-> hy,
     ax |-> ax, ay |-> hy + 40, ky |-> hy + 20, nx |-> nx, ny |-> ny, sx |-> nx,
     sy |-> ny + 20, sw |-> 20, hw |-> 15, nv |-> 90, ev |-> 90, sv |-> 90, av |-> 90,
     hv |-> 90, kv |-> 90, fv |-> 90, wy |-> 40]

\* extractLandmarks(landmarks) is not null: the array holds all 33 landmarks
extractLandmarks(f) == f.set /\ f.count >= 33

-----------------------------------------------------------------------------
(* cheatDetection.js.  Positions and visibilities in hundredths, so 0.3 is  *)
(* 30; distances are compared on their squares.                             *)
CutThresholdSq == 900

\* landmarks[i] is defined
Has(f, i) == f.set /\ i < f.count

\* landmarks[i]?.visibility > 0.3 for the landmark groups
NoseSeen(f) == Has(f, 0) /\ f.nv > 30
EyesSeen(f) == Has(f, 5) /\ f.ev > 30
ShouldersSeen(f) == Has(f, 12) /\ f.sv > 30
ElbowsSeen(f) == Has(f, 14) /\ f.av > 30
HipsSeen(f) == Has(f, 24) /\ f.hv > 30

\* checkSinglePerson: at least 3 of the landmarks 0, 2, 5, 11, 12, 13, 14,
\* 23, 24 are visible
checkSinglePerson(f) ==
    /\ f.set /\ f.count # 0
    /\ (IF NoseSeen(f) THEN 1 ELSE 0) + (IF EyesSeen(f) THEN 2 ELSE 0)
         + (IF ShouldersSeen(f) THEN 2 ELSE 0) + (IF ElbowsSeen(f) THEN 2 ELSE 0)
         + (IF HipsSeen(f) THEN 2 ELSE 0) >= 3

\* checkNoExtraPeople: shoulders and hips no wider than 0.6 of the frame
checkNoExtraPeople(f) ==
    \/ ~f.set \/ f.count < 25
    \/ ~(f.sw > 60 \/ f.hw > 60)

\* checkFaceVisible
checkFaceVisible(f) == f.set /\ NoseSeen(f) /\ EyesSeen(f)

\* checkCameraAngle(landmarks).valid
checkCameraAngle(f) ==
    IF ~f.set \/ ~Has(f, 0) \/ f.nv < 30 THEN TRUE
    ELSE IF f.nx < 10 \/ f.nx > 90 THEN FALSE
    ELSE IF f.ny < 5 THEN FALSE
    ELSE IF HipsSeen(f) /\ Abs(f.ny - f.hy) < 10 THEN FALSE
    ELSE TRUE

Snapshot(f) == [set |-> TRUE, noseX |-> f.nx, noseY |-> f.ny, sX |-> f.sx, sY |-> f.sy]

\* faulty variant: only the horizontal displacement is measured
DistSqXOnly(ax, ay, bx, by) == (ax - bx) * (ax - bx)

DistSq(ax, ay, bx, by) == (ax - bx) * (ax - bx) + (ay - by) * (ay - by)

\* faulty variant: the snapshot is kept when a cut is flagged
SnapAfterKeptOnCut(prev, f, cut) == IF cut THEN prev ELSE Snapshot(f)

\* the value left in prevLandmarkPositions by a frame with nose and shoulder
SnapAfter(prev, f, cut) == Snapshot(f)

\* checkForVideoCuts(landmarks) with prevLandmarkPositions = prev: the verdict
\* and the new value of prevLandmarkPositions
checkForVideoCuts(prev, f) ==
    IF ~f.set \/ ~Has(f, 0) \/ ~Has(f, 11) THEN [cut |-> FALSE, snap |-> NoSnap]
    ELSE LET cut == /\ prev.set
                    /\ \/ DistSq(f.nx, f.ny, prev.noseX, prev.noseY) > CutThresholdSq
                       \/ DistSq(f.sx, f.sy, prev.sX, prev.sY) > CutThresholdSq
         IN  [cut |-> cut, snap |-> SnapAfter(prev, f, cut)]

\* (lHip?.y || 0.5): a missing hip, or one at height 0, counts as 0.5
HipYOrHalf(f) == IF Has(f, 24) /\ f.hy # 0 THEN f.hy ELSE 50

\* checkMalpractice(expectedActivity, landmarks).malpractice
checkMalpractice(expectedActivity, f) ==
    IF ~f.set \/ expectedActivity = "" THEN FALSE
    ELSE IF ~Has(f, 0) \/ ~Has(f, 12) THEN FALSE
    ELSE IF f.nv < 30 \/ f.sv < 30 THEN FALSE
    ELSE LET torsoAngle == Abs(f.ny - HipYOrHalf(f))
         IN  CASE expectedActivity \in {"push-ups", "pushups"} ->
                    HipsSeen(f) /\ f.ny < f.hy - 25 /\ torsoAngle > 30
               [] expectedActivity = "squats" ->
                    HipsSeen(f) /\ Abs(f.ny - f.hy) < 5
               [] expectedActivity = "wall-sit" ->
                    Has(f, 27) /\ f.kv > 30 /\ f.fv > 30 /\ Abs(f.ky - f.hy) < 2
               [] expectedActivity \in {"vertical-jump", "broad-jump"} ->
                    Has(f, 28) /\ f.fv > 30 /\ Abs(f.ay - f.ny) < 10
               [] OTHER -> FALSE

\* the 2D context handed to runCheatDetection: none, or one whose sampled
\* average brightness is `avg` (0..255), or one whose getImageData throws
NoCtx == [set |-> FALSE, throws |-> FALSE, avg |-> 0]

\* checkBrightness(ctx, width, height)
checkBrightness(ctx) == ctx.throws \/ ctx.avg > 30

\* runCheatDetection(landmarks, ctx, width, height, prevBrightness,
\* expectedActivity) with prevLandmarkPositions = prev; expectedActivity ""
\* stands for a missing, null or empty argument.  `snap` is the value left in
\* prevLandmarkPositions.
runCheatDetection(prev, f, ctx, expectedActivity) ==
    LET extra == ~checkNoExtraPeople(f)
        camera == ~checkCameraAngle(f)
        c == checkForVideoCuts(prev, f)
        mal == expectedActivity # "" /\ checkMalpractice(expectedActivity, f)
        dark == ctx.set /\ ~checkBrightness(ctx)
        alerts == (IF extra THEN {"people"} ELSE {})
                    \cup (IF camera THEN {"camera"} ELSE {})
                    \cup (IF c.cut THEN {"cut"} ELSE {})
                    \cup (IF mal THEN {"malpractice"} ELSE {})
        warnings == (IF ~checkSinglePerson(f) THEN {"noperson"} ELSE {})
                    \cup (IF f.set /\ ~checkFaceVisible(f) THEN {"face"} ELSE {})
                    \cup (IF dark THEN {"light"} ELSE {})
    IN  [alerts |-> alerts,
         warnings |-> warnings,
         isValid |-> ~(extra \/ c.cut \/ dark),
         shouldShowRedOverlay |-> extra \/ camera \/ c.cut \/ mal,
         snap |-> c.snap]

-----------------------------------------------------------------------------
(* useActivityLogic.js *)

Activities == {"wall-sit", "sit-ups", "squats", "broad-jump"}

NoAngles == [leftKnee |-> NoAngle, rightKnee |-> NoAngle, torso |-> NoAngle,
             knee |-> NoAngle]

InitMetrics ==
    [repCount |-> 0, formScore |-> 0, holdDuration |-> 0, stabilityScore |-> 0,
     postureAccuracy |-> 0, depthPercent |-> 0, jumpDistance |-> 0,
     jointAngles |-> NoAngles, phase |-> "idle", formQuality |-> "good"]

\* the part of the hook's state that frames and resetMetrics change
Cur == [metrics |-> metrics, formScores |-> formScores, phaseRef |-> phaseRef,
        startTimeRef |-> startTimeRef, stableFramesRef |-> stableFramesRef,
        totalFramesRef |-> totalFramesRef, jumpStartRef |-> jumpStartRef,
        prevHipYRef |-> prevHipYRef]

Assign(S) ==
    /\ metrics' = S.metrics
    /\ formScores' = S.formScores
    /\ phaseRef' = S.phaseRef
    /\ startTimeRef' = S.startTimeRef
    /\ stableFramesRef' = S.stableFramesRef
    /\ totalFramesRef' = S.totalFramesRef
    /\ jumpStartRef' = S.jumpStartRef
    /\ prevHipYRef' = S.prevHipYRef

resetMetrics(S) ==
    [metrics |-> InitMetrics, formScores |-> <<>>, phaseRef |-> "idle",
     startTimeRef |-> 0, stableFramesRef |-> 0, totalFramesRef |-> 0,
     jumpStartRef |-> NoJump, prevHipYRef |-> NoHip]

\* Math.round(mean of [...captured, 85])
RepFormScore(captured) == RoundDiv(SumSeq(captured) + 85, Len(captured) + 1)

\* ---- wall sit ----------------------------------------------------------
\* faulty variant: a frame out of posture clears the timer
WallSitStartCleared(prevStart, isValidPosture, t) ==
    IF isValidPosture THEN (IF prevStart = 0 THEN t ELSE prevStart) ELSE 0

\* startTimeRef after the frame: set by the first frame in posture (0 is null)
WallSitStart(prevStart, isValidPosture, t) ==
    IF isValidPosture /\ prevStart = 0 THEN t ELSE prevStart

processWallSit(S, f, t) ==
    LET avg2 == f.l + f.r
        isValidPosture == avg2 >= 170 /\ avg2 <= 200
        isWarning == avg2 >= 150 /\ avg2 <= 220
        stable == IF isValidPosture THEN S.stableFramesRef + 1 ELSE S.stableFramesRef
        start == WallSitStart(S.startTimeRef, isValidPosture, t)
        holdDuration == IF start # 0 THEN (t - start) \div 2 ELSE 0
        stabilityScore == IF S.totalFramesRef > 0
                          THEN RoundDiv(stable * 100, S.totalFramesRef) ELSE 0
    IN  [S EXCEPT !.stableFramesRef = stable,
                  !.startTimeRef = start,
                  !.metrics = [@ EXCEPT
                      !.holdDuration = holdDuration,
                      !.stabilityScore = stabilityScore,
                      !.postureAccuracy = IF isValidPosture THEN 100
                                          ELSE IF isWarning THEN 70 ELSE 30,
                      !.jointAngles = [NoAngles EXCEPT !.leftKnee = f.l, !.rightKnee = f.r],
                      !.phase = IF isValidPosture THEN "active" ELSE "rest",
                      !.formQuality = IF isValidPosture THEN "good"
                                      ELSE IF isWarning THEN "warning" ELSE "bad",
                      !.formScore = stabilityScore]]

\* ---- sit ups -----------------------------------------------------------
SitUpLyingThreshold == 140
SitUpUprightThreshold == 90

\* faulty variant: the metrics are rebuilt without the previous repCount
SitUpsRepCountLost(prevCount, repCounted) == IF repCounted THEN prevCount + 1 ELSE 0

SitUpsRepCount(prevCount, repCounted) == IF repCounted THEN prevCount + 1 ELSE prevCount

SitUpsNewPhase(ph, isLying, isUpright) ==
    IF ph = "idle" /\ isLying THEN "down"
    ELSE IF ph = "down" /\ isUpright THEN "up"
    ELSE IF ph = "up" /\ isLying THEN "down"
    ELSE ph

processSitUps(S, f, captured) ==
    LET avg2 == f.l + f.r
        isLying == avg2 > 2 * SitUpLyingThreshold
        isUpright == avg2 < 2 * SitUpUprightThreshold
        repCounted == S.phaseRef = "up" /\ isLying
        \* (avg < 70 ? 100 : 80) * 0.5 + (|l - r| < 15 ? 100 : 60) * 0.5
        repForm == Min(100, RoundDiv((IF avg2 < 140 THEN 100 ELSE 80)
                                     + (IF Abs(f.l - f.r) < 15 THEN 100 ELSE 60), 2))
    IN  [S EXCEPT !.phaseRef = SitUpsNewPhase(S.phaseRef, isLying, isUpright),
                  !.formScores = IF repCounted THEN Append(@, repForm) ELSE @,
                  !.metrics = [@ EXCEPT
                      !.repCount = SitUpsRepCount(@, repCounted),
                      !.jointAngles = [NoAngles EXCEPT !.torso = RoundDiv(avg2, 2)],
                      !.phase = IF isUpright THEN "active" ELSE "rest",
                      !.formQuality = IF isUpright \/ isLying THEN "good" ELSE "warning",
                      !.formScore = IF repCounted THEN RepFormScore(captured) ELSE @]]

\* ---- squats ------------------------------------------------------------
SquatDownThreshold == 95
SquatUpThreshold == 165

\* faulty variant: a half squat (up to 120 degrees) already counts as down
SquatIsDownHalf(avg2) == avg2 <= 240

SquatIsDown(avg2) == avg2 < 2 * SquatDownThreshold

\* Math.round(clamp((180 - avg) / (180 - 70) * 100, 0, 100)), avg = avg2 / 2
DepthPercent(avg2) == Max(0, Min(100, RoundDiv((360 - avg2) * 100, 220)))

\* faulty variant: the phase follows the zone of the frame, whatever the phase was
SquatsPhaseStateless(ph, isDown, isUp) ==
    IF isUp THEN "up" ELSE IF isDown THEN "down" ELSE ph

SquatsNewPhase(ph, isDown, isUp) ==
    IF ph = "idle" /\ isUp THEN "up"
    ELSE IF ph = "up" /\ isDown THEN "down"
    ELSE IF ph = "down" /\ isUp THEN "up"
    ELSE ph

\* (depth > 60 ? 100 : depth * 1.5) * 0.6 + (sym < 10 ? 100 : max(0, 100 - 3 sym)) * 0.4
SquatRepForm(depthPercent, symmetry) ==
    LET d20 == IF depthPercent > 60 THEN 200 ELSE 3 * depthPercent   \* twice the depth term
        sy == IF symmetry < 10 THEN 100 ELSE Max(0, 100 - symmetry * 3)
    IN  Min(100, RoundDiv(d20 * 6 + sy * 8, 20))

processSquats(S, f, captured) ==
    LET avg2 == f.l + f.r
        isDown == SquatIsDown(avg2)
        isUp == avg2 > 2 * SquatUpThreshold
        isHalfSquat == avg2 >= 190 /\ avg2 <= 240
        depthPercent == DepthPercent(avg2)
        repCounted == S.phaseRef = "down" /\ isUp
        repForm == SquatRepForm(depthPercent, Abs(f.l - f.r))
    IN  [S EXCEPT !.phaseRef = SquatsNewPhase(S.phaseRef, isDown, isUp),
                  !.formScores = IF repCounted THEN Append(@, repForm) ELSE @,
                  !.metrics = [@ EXCEPT
                      !.repCount = IF repCounted THEN @ + 1 ELSE @,
                      !.depthPercent = depthPercent,
                      !.jointAngles = [NoAngles EXCEPT !.leftKnee = f.l, !.rightKnee = f.r],
                      !.phase = IF isDown THEN "active" ELSE "rest",
                      !.formQuality = IF isDown THEN "good"
                                      ELSE IF isHalfSquat THEN "warning" ELSE "good",
                      !.formScore = IF repCounted THEN RepFormScore(captured) ELSE @]]

\* ---- broad jump --------------------------------------------------------
\* faulty variant: a counted jump does not record its form score
JumpScoresNotAppended(scores, counted, jumpForm) == scores

JumpFormScores(scores, counted, jumpForm) ==
    IF counted THEN Append(scores, jumpForm) ELSE scores

\* faulty variant: a landing is counted however short the jump
JumpCountedAnyDistance(isValidJump, estimatedDistance) == isValidJump

\* `if (isValidJump && estimatedDistance > 10)` (distance in cm)
JumpCounted(isValidJump, estimatedDistance) == isValidJump /\ estimatedDistance > 10

processBroadJump(S, f) ==
    LET hasPrev == S.prevHipYRef # NoHip
        hipDelta == S.prevHipYRef - f.hy
        takeoff == hasPrev /\ hipDelta > 3 /\ ~S.jumpStartRef.set
        js == IF takeoff THEN [set |-> TRUE, hipX |-> f.hx] ELSE S.jumpStartRef
        landing == hasPrev /\ js.set /\ hipDelta < -1
        estimatedDistance == Abs(f.hx - js.hipX) * 3
        isValidJump == Abs(f.hx - f.ax) < 15
        counted == landing /\ JumpCounted(isValidJump, estimatedDistance)
        \* (dist > 100 ? 100 : dist) * 0.7 + 100 * 0.3
        jumpForm == Min(100, RoundDiv(Min(100, estimatedDistance) * 7 + 300, 10))
        m1 == IF counted
              THEN [S.metrics EXCEPT !.jumpDistance = Max(@, estimatedDistance),
                                     !.repCount = @ + 1,
                                     !.formScore = jumpForm,
                                     !.formQuality = "good",
                                     !.phase = "active"]
              ELSE IF landing /\ ~isValidJump
              THEN [S.metrics EXCEPT !.formQuality = "bad", !.phase = "rest"]
              ELSE S.metrics
    IN  [S EXCEPT !.jumpStartRef = IF landing THEN NoJump ELSE js,
                  !.prevHipYRef = f.hy,
                  !.formScores = JumpFormScores(@, counted, jumpForm),
                  !.metrics = [m1 EXCEPT !.jointAngles.knee = f.l]]

\* ---- processFrame ------------------------------------------------------
processFrame(S, act, active, f, t, captured) ==
    IF ~f.set \/ ~active THEN S
    ELSE IF ~extractLandmarks(f) THEN S
    ELSE LET S1 == [S EXCEPT !.totalFramesRef = @ + 1]
         IN  CASE act = "wall-sit" -> processWallSit(S1, f, t)
               [] act = "sit-ups" -> processSitUps(S1, f, captured)
               [] act = "squats" -> processSquats(S1, f, captured)
               [] act = "broad-jump" -> processBroadJump(S1, f)
               [] OTHER -> S1

-----------------------------------------------------------------------------
(* scoringSystem.js.  Times are in tenths of a second, punch speed in       *)
(* tenths of m/s; weights are in hundredths.                                *)

\* Math.round(Math.max(0, Math.min(100, p / q * 100)))
ClampScore(p, q) == Max(0, Min(100, RoundDiv(p * 100, q)))

calculateFormScore(formAccuracy, endurance, consistency, aiConfidence) ==
    RoundDiv(Min(1000, Max(0, 4 * formAccuracy + 3 * endurance
                              + 2 * consistency + aiConfidence)), 10)

calculateSprintScore(time, distance) ==
    IF distance = 20 THEN ClampScore(45 - time, 45 - 28)
    ELSE ClampScore(75 - time, 75 - 48)

calculateAgilityScore(time) == ClampScore(130 - time, 130 - 95)

calculatePushUpScore(reps, formAccuracy, fatigueRate) ==
    LET repScore == Min(100, 2 * reps)
        fatigueBonus == Max(0, 100 - fatigueRate)
    IN  RoundDiv(4 * repScore + 4 * formAccuracy + 2 * fatigueBonus, 10)

calculateJumpScore(heightCm) == ClampScore(heightCm, 70)

calculateBeepScore(level) == Min(100, RoundDiv(level * 100, 15))

calculateAccuracyScore(accuracy, consistency) ==
    RoundDiv(7 * accuracy + 3 * consistency, 10)

calculateReactionScore(avgMs) ==
    IF avgMs <= 0 THEN 0 ELSE ClampScore(500 - avgMs, 350)

calculateCombatScore(avgReactionMs, punchSpeed, kickHeightPercent) ==
    LET reactionScore == calculateReactionScore(avgReactionMs)
        punchScore == ClampScore(punchSpeed - 20, 60)
        kickScore == ClampScore(kickHeightPercent - 15, 65)
    IN  RoundDiv(4 * reactionScore + 3 * punchScore + 3 * kickScore, 10)

WeightSpeed == 25
WeightStrength == 25
WeightEndurance == 20
WeightSkill == 15
WeightReaction == 15

\* faulty variant: the weighted sum is truncated instead of rounded
calculateOverallScoreFloor(m) ==
    Min(10000, Max(0, m.speed * WeightSpeed + m.strength * WeightStrength
                      + m.endurance * WeightEndurance + m.skill * WeightSkill
                      + m.reaction * WeightReaction)) \div 100

calculateOverallScore(m) ==
    RoundDiv(Min(10000, Max(0, m.speed * WeightSpeed + m.strength * WeightStrength
                               + m.endurance * WeightEndurance + m.skill * WeightSkill
                               + m.reaction * WeightReaction)), 100)

calculatePercentile(s) ==
    IF s >= 95 THEN 99
    ELSE IF s >= 90 THEN 95
    ELSE IF s >= 80 THEN 85
    ELSE IF s >= 70 THEN 72
    ELSE IF s >= 60 THEN 55
    ELSE IF s >= 50 THEN 40
    ELSE IF s >= 40 THEN 25
    ELSE 10

calculateSpeedModule(sprintScore, agilityScore) == RoundDiv(sprintScore + agilityScore, 2)

calculateStrengthModule(pushUpScore, jumpScore) == RoundDiv(pushUpScore + jumpScore, 2)

calculateXP(reps, formAccuracy) ==
    reps * 10 + (IF formAccuracy >= 90 THEN 5 * reps ELSE 0)

\* PushUpTest: fatigueRate from the rep counts of the two halves of the minute
\* (n = first + second rep times; below 4 reps, or with an empty first half, 0)
FatigueRate(firstHalf, secondHalf) ==
    IF firstHalf + secondHalf < 4 THEN 0
    ELSE IF firstHalf = 0 THEN 0
    ELSE RoundDiv((firstHalf - secondHalf) * 100, firstHalf)

-----------------------------------------------------------------------------
(* Assessment.jsx driving useActivityLogic *)

NoResults == [set |-> FALSE]

\* the frames the pose model may deliver on the Assessment page
\* (left, right) angle pairs: on, just off and well off every threshold
KneePairs == {<<60, 60>>, <<90, 90>>, <<94, 96>>, <<110, 110>>, <<164, 166>>,
              <<160, 180>>, <<176, 176>>}
TorsoPairs == {<<60, 60>>, <<89, 91>>, <<110, 110>>, <<139, 141>>, <<150, 150>>,
               <<140, 170>>}
\* on this page the nose stays at (0.5, 0.3)
KneeFrames == {MkFrame(p[1], p[2], 170, 50, 50, 50, 50, 30) : p \in KneePairs}
TorsoFrames == {MkFrame(p[1], p[2], 170, 50, 50, 50, 50, 30) : p \in TorsoPairs}
\* <<hip x, hip y, hip x - ankle x>>
JumpPoints == ({10, 14, 50} \X {46, 47, 48, 50} \X {0})
                 \cup {<<13, 48, 0>>, <<50, 48, 15>>, <<50, 48, 16>>}
JumpFrames == {MkFrame(170, 170, 170, p[1], p[2], p[1] - p[3], 50, 30) :
                  p \in JumpPoints}
FramesFor(act) ==
    CASE act = "sit-ups" -> TorsoFrames
      [] act = "broad-jump" -> JumpFrames
      [] OTHER -> KneeFrames

\* the frame effect (Assessment.jsx 62-70) for the frame f now in `landmarks`
FrameEffect(S, act, active, f, t, captured) == processFrame(S, act, active, f, t, captured)

\* a new frame arrives from the pose model and the frame effect runs
AsFrame(f) ==
    /\ page = "assessment"
    /\ sessions > 0          \* the camera is started by the first handleStart
    /\ landmarks' = f
    /\ Assign(FrameEffect(Cur, activity, isActive, f, now, cbFormScores))
    /\ prevLandmarkPositions' =
          IF isActive /\ f.set
          THEN runCheatDetection(prevLandmarkPositions, f, NoCtx, "").snap
          ELSE prevLandmarkPositions
    /\ UNCHANGED <<page, combatVars, libVars, sessions, now, activity, isActive, cbFormScores, finalResults, script,
                   pushVars, scoreVars>>

AssessFrame ==
    /\ isActive => totalFramesRef < MaxFrames
    /\ \E f \in FramesFor(activity) : AsFrame(f)

\* handleStart: resetMetrics, startSession; the frame effect then runs again
\* for the frame already in `landmarks` because isActive changed
HandleStart ==
    /\ page = "assessment"
    /\ ~isActive
    /\ sessions < MaxSessions
    /\ sessions' = sessions + 1
    /\ isActive' = TRUE
    /\ cbFormScores' = <<>>
    /\ Assign(FrameEffect(resetMetrics(Cur), activity, TRUE, landmarks, now, <<>>))
    /\ prevLandmarkPositions' =
          IF landmarks.set THEN runCheatDetection(prevLandmarkPositions, landmarks, NoCtx, "").snap
          ELSE prevLandmarkPositions
    /\ UNCHANGED <<page, combatVars, libVars, poseVars, activity, finalResults, script, pushVars, scoreVars>>

\* handleStop: stopSession and the result record
StopResults ==
    LET endurance == Min(100,
            IF activity = "wall-sit" THEN RoundDiv(metrics.holdDuration * 100, 60)
            ELSE IF activity = "broad-jump" THEN RoundDiv(metrics.jumpDistance * 100, 3)
            ELSE RoundDiv(metrics.repCount * 100, 20))
    IN  [set |-> TRUE, activity |-> activity, formAccuracy |-> metrics.formScore,
         endurance |-> endurance, reps |-> metrics.repCount,
         duration |-> metrics.holdDuration, distance |-> metrics.jumpDistance,
         xp |-> calculateXP(IF metrics.repCount = 0 THEN 1 ELSE metrics.repCount,
                            metrics.formScore),
         formScores |-> formScores]

HandleStop ==
    /\ page = "assessment"
    /\ isActive
    /\ isActive' = FALSE
    /\ cbFormScores' = formScores
    /\ finalResults' = StopResults
    /\ UNCHANGED <<page, combatVars, libVars, sessions, poseVars, activity, metrics, formScores, phaseRef, startTimeRef,
                   stableFramesRef, totalFramesRef, jumpStartRef, prevHipYRef, script,
                   pushVars, cheatVars, scoreVars>>

\* handleReset: the Reset button is enabled whether or not a session is active
HandleReset ==
    /\ page = "assessment"
    /\ Assign(resetMetrics(Cur))
    /\ finalResults' = NoResults
    /\ UNCHANGED <<page, combatVars, libVars, sessions, poseVars, activity, isActive, cbFormScores, script,
                   pushVars, cheatVars, scoreVars>>

\* ActivitySelector: disabled while a session is active
SetActivity ==
    /\ page = "assessment"
    /\ ~isActive
    /\ \E a \in Activities \ {activity} : activity' = a
    /\ cbFormScores' = formScores
    /\ UNCHANGED <<page, combatVars, libVars, sessions, poseVars, metrics, formScores, isActive, phaseRef, startTimeRef,
                   stableFramesRef, totalFramesRef, jumpStartRef, prevHipYRef,
                   finalResults, script, pushVars, cheatVars, scoreVars>>

\* wall-clock time passes; only processWallSit reads the clock on this page
\* and only differences of readings within one session matter, so time is
\* advanced during wall-sit sessions only
Tick ==
    /\ page = "assessment"
    /\ activity = "wall-sit"
    /\ isActive
    /\ now < MaxClock
    /\ now' = now + 1
    /\ UNCHANGED <<page, combatVars, libVars, sessions, landmarks, assessVars, pushVars, cheatVars, scoreVars>>

-----------------------------------------------------------------------------
(* PushUpTest.jsx *)

PuTimerStart == 60
PuDownThreshold == 100
PuUpThreshold == 155
PuBodyThreshold == 150

ElbowPairs == {<<90, 90>>, <<99, 101>>, <<130, 130>>, <<154, 156>>, <<158, 160>>,
               <<170, 170>>}
BodyVals == {150, 170}
PushUpFrames == {MkFrame(p[1], p[2], b, 50, 50, 50, 50, 30) :
                    p \in ElbowPairs, b \in BodyVals}

PuCur == [reps |-> puReps, incomplete |-> puIncomplete, formScore |-> puFormScore,
          phaseRef |-> puPhaseRef, formScoresRef |-> puFormScoresRef,
          repTimes |-> puRepTimes, alerts |-> puCheatAlerts,
          overlay |-> puShowRedOverlay, frames |-> puSessFrames,
          snap |-> prevLandmarkPositions]

PuAssign(P) ==
    /\ puReps' = P.reps
    /\ puIncomplete' = P.incomplete
    /\ puFormScore' = P.formScore
    /\ puPhaseRef' = P.phaseRef
    /\ puFormScoresRef' = P.formScoresRef
    /\ puRepTimes' = P.repTimes
    /\ puCheatAlerts' = P.alerts
    /\ puShowRedOverlay' = P.overlay
    /\ puSessFrames' = P.frames
    /\ prevLandmarkPositions' = P.snap

PushUpNewPhase(ph, isDown, isUp) ==
    IF ph = "idle" /\ isUp THEN "up"
    ELSE IF ph = "up" /\ isDown THEN "down"
    ELSE IF ph = "down" /\ isUp THEN "up"
    ELSE ph

\* bodyAligned ? (avgElbow > 160 ? 95 : 80) : 55
PushUpRepForm(avg2, bodyAligned) ==
    IF bodyAligned THEN (IF avg2 > 320 THEN 95 ELSE 80) ELSE 55

\* the frame effect (54-104) for frame f
PuFrameEffect(P, active, f, t) ==
    IF ~f.set \/ ~active \/ ~extractLandmarks(f) THEN P
    ELSE
    LET cheat == runCheatDetection(P.snap, f, NoCtx, "pushups")
        avg2 == f.l + f.r
        bodyAligned == f.body > PuBodyThreshold
        isDown == avg2 < 2 * PuDownThreshold
        isUp == avg2 > 2 * PuUpThreshold
        closing == P.phaseRef = "down" /\ isUp
        repForm == PushUpRepForm(avg2, bodyAligned)
        scores == IF closing THEN Append(P.formScoresRef, repForm) ELSE P.formScoresRef
    IN  [P EXCEPT !.alerts = cheat.alerts,
                  !.overlay = cheat.shouldShowRedOverlay,
                  !.snap = cheat.snap,
                  !.frames = @ + 1,
                  !.phaseRef = PushUpNewPhase(P.phaseRef, isDown, isUp),
                  !.formScoresRef = scores,
                  !.reps = IF closing /\ repForm > 50 THEN @ + 1 ELSE @,
                  !.repTimes = IF closing /\ repForm > 50 THEN Append(@, t) ELSE @,
                  !.incomplete = IF closing /\ ~(repForm > 50) THEN @ + 1 ELSE @,
                  !.formScore = IF closing THEN RoundDiv(SumSeq(scores), Len(scores)) ELSE @]

PuFrame(f) ==
    /\ page = "pushups"
    /\ sessions > 0          \* the camera is started by the first handleStart
    /\ puActive => puSessFrames < MaxFrames
    /\ landmarks' = f
    /\ PuAssign(PuFrameEffect(PuCur, puActive, f, now))
    /\ UNCHANGED <<page, combatVars, libVars, sessions, now, assessVars, puActive, puTimer, puFinished, scoreVars>>

PushUpFrame == \E f \in PushUpFrames : PuFrame(f)

\* handleStart (106-112); the frame effect then runs for the frame in `landmarks`
PuHandleStart ==
    /\ page = "pushups"
    /\ ~puActive
    /\ sessions < MaxSessions
    /\ sessions' = sessions + 1
    /\ puActive' = TRUE
    /\ puTimer' = PuTimerStart
    /\ puFinished' = FALSE
    /\ PuAssign(PuFrameEffect([PuCur EXCEPT !.reps = 0, !.incomplete = 0,
                                            !.formScore = 100, !.repTimes = <<>>,
                                            !.phaseRef = "idle", !.formScoresRef = <<>>,
                                            !.frames = 0],
                              TRUE, landmarks, now))
    /\ UNCHANGED <<page, combatVars, libVars, poseVars, assessVars, scoreVars>>

\* handleStop (114-122)
\* faulty variant: the session stays active
PuStoppedStillActive == /\ puActive' = puActive
                        /\ puFinished' = TRUE
                        /\ puShowRedOverlay' = FALSE
                        /\ puCheatAlerts' = {}

PuStopped == /\ puActive' = FALSE
             /\ puFinished' = TRUE
             /\ puShowRedOverlay' = FALSE
             /\ puCheatAlerts' = {}

PuHandleStop ==
    /\ page = "pushups"
    /\ puActive
    /\ PuStopped
    /\ UNCHANGED <<page, combatVars, libVars, sessions, poseVars, assessVars, puReps, puIncomplete, puFormScore, puTimer,
                   puPhaseRef, puFormScoresRef, puRepTimes, puSessFrames, cheatVars,
                   scoreVars>>

\* the countdown interval (41-51): one second passes
\* one tick of the countdown interval (41-51)
PuTick ==
    /\ page = "pushups"
    /\ puActive
    /\ puTimer > 0
    /\ now' = now + 2
    /\ IF puTimer <= 1
       THEN /\ puTimer' = 0
            /\ PuStopped
       ELSE /\ puTimer' = puTimer - 1
            /\ UNCHANGED <<puActive, puFinished, puShowRedOverlay, puCheatAlerts>>
    /\ UNCHANGED <<page, combatVars, libVars, sessions, landmarks, assessVars, puReps, puIncomplete, puFormScore,
                   puPhaseRef, puFormScoresRef, puRepTimes, puSessFrames, cheatVars,
                   scoreVars>>

\* the ticks explored together with the other pages
PuTimerTick == PuTick /\ PuTimerStart - puTimer < MaxTicks

-----------------------------------------------------------------------------
(* CombatReaction.jsx: state after the page and its modes are constructed *)

NoPose == [set |-> FALSE, wrist |-> 0, ankle |-> 0]
NoWrist == [set |-> FALSE, x |-> 0, time |-> 0]
NoBaseline == [state |-> "null", bodyHeight2 |-> 0, ankleY |-> 0]

InitCombat ==
    /\ perfNow = 0
    /\ poseLm = NoPose
    /\ results = <<>>
    /\ punchStarted = FALSE
    /\ punchStateRef = "idle"
    /\ punchStartRef = 0
    /\ maxVelocityRef = 0
    /\ punchPrevWristRef = NoWrist
    /\ kickStarted = FALSE
    /\ baselineRef = NoBaseline
    /\ kickStateRef = "idle"
    /\ maxHeightRef = 0
    /\ kickStartRef = 0
    /\ kickTimers = {}
    /\ rcStarted = FALSE
    /\ rcPhase = "idle"
    /\ rcCurrentPrompt = "null"
    /\ rcReactionTime = -1
    /\ rcRound = 0
    /\ promptTimeRef = 0
    /\ rcPrevWristRef = NoWrist
    /\ detectedRef = FALSE
    /\ waitTimerRef = 0
    /\ rcTimers = {}
    /\ rcEffectDue = FALSE
    /\ rcStarts = 0
    /\ rcShownAt = <<>>

-----------------------------------------------------------------------------
(* The rep-counting pages: Assessment and PushUpTest *)

\* no runCheatDetection call has returned yet
NoCheck == [called |-> FALSE, alerts |-> {}, warnings |-> {}, isValid |-> TRUE,
            shouldShowRedOverlay |-> FALSE, clean |-> TRUE]

InitLib ==
    /\ cdResult = NoCheck
    /\ cdPrev = NoCheck
    /\ online = TRUE
    /\ dbResults = <<>>
    /\ dbQueue = {}
    /\ saves = <<>>
    /\ syncs = <<>>
    /\ everQueued = {}
    /\ submitted = {}
    /\ vjPhase = "idle"
    /\ vjStandingRef = -1
    /\ vjPeakRef = -1
    /\ vjPrevHipY = -1
    /\ vjSamples = 0
    /\ vjJumpHeight = 0
    /\ vjPowerScore = 0
    /\ vjAttempts = <<>>
    /\ vjBestJump = 0
    /\ vjShowRedOverlay = FALSE
    /\ vjSeen = {}
    /\ drPhase = "idle"
    /\ drPrev = -1
    /\ drDirRef = ""
    /\ drMovingUp = FALSE
    /\ drCount = 0
    /\ drShowRedOverlay = FALSE
    /\ drLastSign = 0
    /\ drReversals = 0
    /\ btRunning = FALSE
    /\ btLevel = 1
    /\ btShuttle = 0
    /\ btTotal = 0
    /\ btFinished = FALSE
    /\ btElapsed = 0
    /\ btTimers = {}
    /\ btBeepRef = [kind |-> "none"]
    /\ btStopped = FALSE

InitCommon ==
    /\ landmarks = NoFrame
    /\ now = 1
    /\ activity = "squats"
    /\ metrics = InitMetrics
    /\ formScores = <<>>
    /\ isActive = FALSE
    /\ cbFormScores = <<>>
    /\ phaseRef = "idle"
    /\ startTimeRef = 0
    /\ stableFramesRef = 0
    /\ totalFramesRef = 0
    /\ jumpStartRef = NoJump
    /\ prevHipYRef = NoHip
    /\ finalResults = NoResults
    /\ script = <<>>
    /\ puActive = FALSE
    /\ puReps = 0
    /\ puIncomplete = 0
    /\ puFormScore = 100
    /\ puTimer = PuTimerStart
    /\ puPhaseRef = "idle"
    /\ puFormScoresRef = <<>>
    /\ puRepTimes = <<>>
    /\ puFinished = FALSE
    /\ puCheatAlerts = {}
    /\ puShowRedOverlay = FALSE
    /\ puSessFrames = 0
    /\ prevLandmarkPositions = NoSnap
    /\ score = [fn |-> "none", args |-> <<>>, value |-> 0]
    /\ InitCombat
    /\ InitLib

Init ==
    /\ page \in {"assessment", "pushups"}
    /\ sessions = 0
    /\ InitCommon

Next ==
    \/ AssessFrame
    \/ HandleStart
    \/ HandleStop
    \/ HandleReset
    \/ SetActivity
    \/ Tick
    \/ PushUpFrame
    \/ PuHandleStart
    \/ PuHandleStop
    \/ PuTimerTick

Spec == Init /\ [][Next]_vars

-----------------------------------------------------------------------------
(* Claims checked under Spec *)

IsPrefix(a, b) == Len(a) <= Len(b) /\ SubSeq(b, 1, Len(a)) = a

\* a step of a running Assessment session that processed a frame
SessionFrameStep == isActive /\ isActive' /\ totalFramesRef' = totalFramesRef + 1
\* the Reset button pressed while the session is running
SessionResetStep ==
    /\ isActive /\ isActive'
    /\ metrics' = InitMetrics /\ formScores' = <<>> /\ phaseRef' = "idle"
    /\ totalFramesRef' = 0 /\ landmarks' = landmarks
\* a step of a running push-up test that processed a frame
PuSessionFrameStep == puActive /\ puActive' /\ puSessFrames' = puSessFrames + 1

\* C1 (as claimed): within a session, from startSession until stopSession,
\* metrics.repCount never decreases, whatever frames arrive and whatever the
\* user does while the session is active.
C1_RepCountNeverDecreases ==
    [][(isActive /\ isActive') => metrics'.repCount >= metrics.repCount]_vars

\* C1 (amended): within a session no processed frame decreases repCount (a
\* frame adds 0 or 1); the only step of an active session that lowers it is
\* the Reset button, which sets all metrics back to their initial values.
C1_RepCountDecreasesOnlyOnReset ==
    [][/\ SessionFrameStep =>
            metrics'.repCount \in {metrics.repCount, metrics.repCount + 1}
       /\ (isActive /\ isActive' /\ metrics'.repCount < metrics.repCount) =>
            SessionResetStep]_vars

\* a session that counted nothing yet although its cheat check has already
\* seen a frame and never was restarted: Reset was pressed in mid-session
C1_ResetInSession ==
    /\ page = "assessment" /\ isActive /\ sessions = 1
    /\ totalFramesRef = 0 /\ metrics.repCount = 0 /\ prevLandmarkPositions.set

\* C2: for squats, sit-ups and push-ups a processed frame moves the phase
\* only along the declared edges, only when the averaged angle is beyond the
\* matching threshold; a rep is counted only on the closing edge; a frame
\* strictly between the thresholds leaves the phase unchanged.
C2_Edges(old, new, cnt, avg2, lowThr, highThr, first, second) ==
    \* first: phase entered from idle, on the far side of its threshold
    /\ new # old => \/ old = "idle" /\ new = first
                    \/ old = first /\ new = second
                    \/ old = second /\ new = first
    /\ (new # old /\ new = "up") => IF first = "up" THEN avg2 > 2 * highThr
                                                   ELSE avg2 < 2 * lowThr
    /\ (new # old /\ new = "down") => IF first = "up" THEN avg2 < 2 * lowThr
                                                     ELSE avg2 > 2 * highThr
    /\ cnt > 0 => old = second /\ new = first
    /\ cnt \in {0, 1}
    /\ (avg2 > 2 * lowThr /\ avg2 < 2 * highThr) => new = old

C3_FormScoresOnlyGrow ==
    [][/\ (isActive /\ isActive') =>
            /\ IsPrefix(formScores, formScores')
            /\ Len(formScores') = metrics'.repCount
       /\ (puActive /\ puActive') =>
            /\ IsPrefix(puFormScoresRef, puFormScoresRef')
            /\ Len(puFormScoresRef') = puReps' + puIncomplete']_vars

\* C3 (amended): a processed frame only appends to the form-score list, one
\* entry exactly when it counts a rep or event, and the length of the list
\* always equals the count; the one step of a running session that removes
\* entries is the Reset button of the Assessment page, which empties the list
\* together with the count.
C3_FormScoresGrowExceptReset ==
    [][/\ (isActive /\ isActive') =>
            \/ /\ IsPrefix(formScores, formScores')
               /\ Len(formScores') - Len(formScores)
                    = metrics'.repCount - metrics.repCount
               /\ Len(formScores') - Len(formScores) \in {0, 1}
            \/ SessionResetStep
       /\ Len(formScores') = metrics'.repCount
       /\ (puActive /\ puActive') =>
            /\ IsPrefix(puFormScoresRef, puFormScoresRef')
            /\ Len(puFormScoresRef') - Len(puFormScoresRef)
                 = (puReps' + puIncomplete') - (puReps + puIncomplete)
            /\ Len(puFormScoresRef') - Len(puFormScoresRef) \in {0, 1}
       /\ Len(puFormScoresRef') = puReps' + puIncomplete']_vars

\* a broad-jump session with one counted jump and its one form score
C3_JumpRecorded ==
    isActive /\ activity = "broad-jump" /\ metrics.repCount = 1 /\ Len(formScores) = 1

\* a frame step of a running broad-jump session
JumpFrameStep == SessionFrameStep /\ activity = "broad-jump" /\ activity' = activity
\* the frame is a landing: a takeoff was recorded on an earlier frame and the
\* hip is now more than 0.01 lower than on the frame before
LandingStep ==
    /\ JumpFrameStep
    /\ jumpStartRef.set /\ prevHipYRef # NoHip
    /\ landmarks'.hy - prevHipYRef > 1
\* distance in cm and hip-ankle offset in hundredths of the landing frame
LandingDistance == 3 * (IF landmarks'.hx >= jumpStartRef.hipX
                        THEN landmarks'.hx - jumpStartRef.hipX
                        ELSE jumpStartRef.hipX - landmarks'.hx)
LandingLean == IF landmarks'.hx >= landmarks'.ax THEN landmarks'.hx - landmarks'.ax
               ELSE landmarks'.ax - landmarks'.hx
\* the frame counted a jump
JumpCountedStep ==
    /\ metrics'.repCount = metrics.repCount + 1
    /\ Len(formScores') = Len(formScores) + 1
    /\ metrics'.jumpDistance >= LandingDistance
    /\ metrics'.jumpDistance >= metrics.jumpDistance
JumpNotCountedStep ==
    /\ metrics'.repCount = metrics.repCount
    /\ formScores' = formScores
    /\ metrics'.jumpDistance = metrics.jumpDistance

C22_RepsGatedByStraightBody ==
    [][PuSessionFrameStep =>
          LET closing == puPhaseRef = "down" /\ puPhaseRef' = "up"
              aligned == landmarks'.body > 150
              last == puFormScoresRef'[Len(puFormScoresRef')]
          IN  /\ puReps' # puReps => closing /\ aligned /\ puReps' = puReps + 1
              /\ (closing /\ aligned) =>
                    /\ puReps' = puReps + 1
                    /\ last = IF landmarks'.l + landmarks'.r > 2 * 160 THEN 95 ELSE 80
              /\ (closing /\ ~aligned) => last = 55 /\ puReps' = puReps]_vars

\* C26: the xp of the result record of a stopped session is reps * 10, plus
\* reps * 5 when formAccuracy is 90 or more, for the reps and the formAccuracy
\* of that record.
C26_XpFromStoredReps ==
    finalResults.set =>
        finalResults.xp = finalResults.reps * 10
                          + (IF finalResults.formAccuracy >= 90 THEN finalResults.reps * 5
                             ELSE 0)

\* C28: on every frame that counts a squat or a sit-up, metrics.formScore
\* becomes the rounded mean of the entries of formScores, the one appended by
\* that frame included.
C28_FormScoreIsMeanOfFormScores ==
    [][(/\ activity \in {"squats", "sit-ups"}
        /\ metrics'.repCount = metrics.repCount + 1)
       => /\ Len(formScores') = Len(formScores) + 1
          /\ 2 * Len(formScores') * metrics'.formScore <= 2 * SumSeq(formScores') + Len(formScores')
          /\ 2 * Len(formScores') * metrics'.formScore > 2 * SumSeq(formScores') - Len(formScores')]_vars

-----------------------------------------------------------------------------
(* A squat session fed from a script: the session has just been started on  *)
(* a freshly mounted Assessment page and the pose model delivers the frames *)
(* of `script` in order.                                                    *)

ScriptPairs == {<<170, 170>>, <<160, 180>>, <<110, 110>>, <<94, 96>>, <<90, 90>>}
ScriptFrames == {MkFrame(p[1], p[2], 170, 50, 50, 50, 50, 30) : p \in ScriptPairs}

\* a session of activity `act` just started, with a script over `frames`
InitScriptedFor(act, frames) ==
    /\ page = "assessment"
    /\ sessions = 1
    /\ landmarks = NoFrame
    /\ now = 1
    /\ activity = act
    /\ metrics = InitMetrics
    /\ formScores = <<>>
    /\ isActive = TRUE
    /\ cbFormScores = <<>>
    /\ phaseRef = "idle"
    /\ startTimeRef = 0
    /\ stableFramesRef = 0
    /\ totalFramesRef = 0
    /\ jumpStartRef = NoJump
    /\ prevHipYRef = NoHip
    /\ finalResults = NoResults
    /\ script \in [1..ScriptLen -> frames]
    /\ puActive = FALSE
    /\ puReps = 0
    /\ puIncomplete = 0
    /\ puFormScore = 100
    /\ puTimer = PuTimerStart
    /\ puPhaseRef = "idle"
    /\ puFormScoresRef = <<>>
    /\ puRepTimes = <<>>
    /\ puFinished = FALSE
    /\ puCheatAlerts = {}
    /\ puShowRedOverlay = FALSE
    /\ puSessFrames = 0
    /\ prevLandmarkPositions = NoSnap
    /\ score = [fn |-> "none", args |-> <<>>, value |-> 0]
    /\ InitCombat
    /\ InitLib

InitScripted == InitScriptedFor("squats", ScriptFrames)

ScriptFrame ==
    /\ totalFramesRef < Len(script)
    /\ AsFrame(script[totalFramesRef + 1])

SpecScript == InitScripted /\ [][ScriptFrame]_vars

\* twice the average knee angle of the i-th frame of the script
ScriptAvg2(i) == script[i].l + script[i].r

\* C5: knee angles 170, 170, 90, 90, 170 yield exactly one rep, and the
\* depth% computed on the frame that counts the rep is above 60.
C5_OneRepDeeperThan60 ==
    (/\ totalFramesRef = 5
     /\ <<ScriptAvg2(1), ScriptAvg2(2), ScriptAvg2(3), ScriptAvg2(4), ScriptAvg2(5)>>
          = <<340, 340, 180, 180, 340>>)
    => (metrics.repCount = 1 /\ metrics.depthPercent > 60)

\* C6: as long as no frame of the session had an average knee angle below
\* 95, no rep is counted, and the display metrics are those of the last frame.
C6_HalfSquatNotCounted ==
    (\A i \in 1..totalFramesRef : ScriptAvg2(i) >= 2 * 95) =>
        /\ metrics.repCount = 0
        /\ formScores = <<>>
        /\ totalFramesRef > 0 =>
             /\ metrics.depthPercent = DepthPercent(ScriptAvg2(totalFramesRef))
             /\ metrics.jointAngles.leftKnee = script[totalFramesRef].l
             /\ metrics.jointAngles.rightKnee = script[totalFramesRef].r

\* up zone, then a half squat (110 degrees), then up again: nothing counted
C6_HalfSquatAndBack ==
    /\ totalFramesRef = 3
    /\ ScriptAvg2(1) = 340 /\ ScriptAvg2(2) = 220 /\ ScriptAvg2(3) = 340
    /\ phaseRef = "up" /\ metrics.repCount = 0 /\ metrics.depthPercent = 9

-----------------------------------------------------------------------------
(* The scoring functions applied to the values the tests can produce *)

Percents == {0, 55, 90, 100}
SprintTimes == {20, 28, 36, 45, 60, 75, 90}       \* tenths of a second
AgilityTimes == {80, 95, 112, 130, 150}
JumpHeights == {0, 35, 70, 90}
BeepLevels == 1..15
ReactionTimes == {0, 100, 150, 325, 500, 3000}
PunchSpeeds == {0, 20, 50, 80, 100}               \* tenths of m/s
KickHeights == {0, 15, 50, 80, 100}
PushUpForms == {55, 80, 95, 100}                  \* means of 95 / 80 / 55

Scored(fn, args, value) ==
    /\ score' = [fn |-> fn, args |-> args, value |-> value]
    /\ UNCHANGED <<page, combatVars, libVars, sessions, poseVars, assessVars, pushVars, cheatVars>>

ScoreForm ==
    \E fa \in Percents, en \in Percents, co \in Percents, ai \in Percents :
        Scored("calculateFormScore", <<fa, en, co, ai>>, calculateFormScore(fa, en, co, ai))

ScoreSprint ==
    \E t \in SprintTimes, d \in {20, 40} :
        Scored("calculateSprintScore", <<t, d>>, calculateSprintScore(t, d))

ScoreAgility ==
    \E t \in AgilityTimes :
        Scored("calculateAgilityScore", <<t>>, calculateAgilityScore(t))

\* reps and fatigueRate as PushUpTest computes them from the rep times
ScorePushUp ==
    \E first \in 0..MaxHalf, second \in 0..MaxHalf, fa \in PushUpForms :
        Scored("calculatePushUpScore", <<first + second, fa, FatigueRate(first, second)>>,
               calculatePushUpScore(first + second, fa, FatigueRate(first, second)))

ScoreJump ==
    \E h \in JumpHeights : Scored("calculateJumpScore", <<h>>, calculateJumpScore(h))

ScoreBeep ==
    \E lv \in BeepLevels : Scored("calculateBeepScore", <<lv>>, calculateBeepScore(lv))

ScoreAccuracy ==
    \E a \in Percents, c \in Percents :
        Scored("calculateAccuracyScore", <<a, c>>, calculateAccuracyScore(a, c))

ScoreReaction ==
    \E ms \in ReactionTimes :
        Scored("calculateReactionScore", <<ms>>, calculateReactionScore(ms))

ScoreCombat ==
    \E ms \in ReactionTimes, p \in PunchSpeeds, k \in KickHeights :
        Scored("calculateCombatScore", <<ms, p, k>>, calculateCombatScore(ms, p, k))

ScoreSpeedModule ==
    \E t \in SprintTimes, d \in {20, 40}, a \in AgilityTimes :
        Scored("calculateSpeedModule", <<t, d, a>>,
               calculateSpeedModule(calculateSprintScore(t, d), calculateAgilityScore(a)))

ScoreStrengthModule ==
    \E reps \in {0, 25, 50, 70}, fa \in PushUpForms, h \in JumpHeights :
        Scored("calculateStrengthModule", <<reps, fa, h>>,
               calculateStrengthModule(calculatePushUpScore(reps, fa, 0),
                                       calculateJumpScore(h)))

\* module scores of one athlete
ExampleModules == [speed |-> 80, strength |-> 70, endurance |-> 60, skill |-> 90,
                   reaction |-> 50]

ScoreOverall ==
    \E m \in [speed : Percents, strength : Percents, endurance : Percents,
              skill : Percents, reaction : Percents] \cup {ExampleModules} :
        Scored("calculateOverallScore", <<m>>, calculateOverallScore(m))

\* the ranking of an athlete: calculatePercentile(calculateOverallScore(m));
\* the arguments recorded are the module scores and the overall score
RankModules ==
    {ExampleModules}
      \cup {[speed |-> q, strength |-> q, endurance |-> q, skill |-> q, reaction |-> q] :
               q \in {0, 39, 40, 50, 60, 69, 70, 80, 90, 95, 100}}
ScorePercentile ==
    \E m \in RankModules :
        LET overall == calculateOverallScore(m)
        IN  Scored("calculatePercentile", <<m, overall>>, calculatePercentile(overall))

InitScore ==
    /\ page = "dashboard"
    /\ sessions = 0
    /\ InitCommon

NextScore ==
    \/ ScoreForm
    \/ ScoreSprint
    \/ ScoreAgility
    \/ ScorePushUp
    \/ ScoreJump
    \/ ScoreBeep
    \/ ScoreAccuracy
    \/ ScoreReaction
    \/ ScoreCombat
    \/ ScoreSpeedModule
    \/ ScoreStrengthModule
    \/ ScoreOverall
    \/ ScorePercentile

SpecScore == InitScore /\ [][NextScore]_vars

\* C4: every score the scoring functions return lies in [0, 100].
C4_ScoresWithin0and100 == score.value >= 0 /\ score.value <= 100

\* C18 (as claimed): the overall score of speed 80, strength 70, endurance
\* 60, skill 90, reaction 50 is 72 and its percentile is 72.
C18_Overall72Percentile72 ==
    /\ (score.fn = "calculateOverallScore" /\ score.args = <<ExampleModules>>)
          => score.value = 72
    /\ (score.fn = "calculatePercentile" /\ score.args[1] = ExampleModules)
          => score.args[2] = 72 /\ score.value = 72

\* C18 (amended): the overall score of these module scores is 71 (the
\* weighted sum is 70.5) and its percentile is 72.
C18_Overall71Percentile72 ==
    /\ (score.fn = "calculateOverallScore" /\ score.args = <<ExampleModules>>)
          => score.value = 71
    /\ (score.fn = "calculatePercentile" /\ score.args[1] = ExampleModules)
          => score.args[2] = 71 /\ score.value = 72

\* the athlete of the example has been ranked
C18_ExampleRanked ==
    score.fn = "calculatePercentile" /\ score.args[1] = ExampleModules /\ score.value = 72

-----------------------------------------------------------------------------
(* CombatReaction.jsx: PunchSpeedMode and KickHeightMode.                   *)
(* Time is performance.now() in units of 100 ms.  A wrist is its x in       *)
(* hundredths of the frame; a wrist that moved d hundredths in dt units     *)
(* has speed d/100 * 1.5 / (dt/10) m/s, kept in twentieths of a m/s:        *)
(* 3 * d / dt.  Only dt = 1 passes the gate dt < 0.2 s.                     *)

restVarsNoLib == <<sessions, poseVars, assessVars, pushVars, cheatVars, scoreVars>>
restVars == <<restVarsNoLib, libVars>>

PunchStartThreshold == 40     \* 2.0 m/s
PunchEndThreshold == 16       \* 0.8 m/s
PunchCeiling == 10            \* punchDuration < 1.0
KickStartThreshold == 15      \* % of body height
KickEndThreshold == 8
KickCeiling == 20             \* duration < 2000
CalibrationDelay == 20        \* setTimeout(..., 2000)

WristXs == {0, 5, 10, 20}
AnkleYs == {50, 80, 86, 90}
FrameGaps == {1, 2, 5}

WristVel20(d, dt) == (3 * d) \div dt

\* PunchSpeedMode.handleStart (160-167)
PunchHandleStart ==
    /\ page = "combat-punch"
    /\ ~punchStarted
    /\ punchStarted' = TRUE
    /\ UNCHANGED <<page, restVars, perfNow, poseLm, results, punchStateRef, punchStartRef,
                   maxVelocityRef, punchPrevWristRef, kickVars, reactVars>>

\* faulty variant: a punch is over as soon as the speed is below the start
\* threshold
PunchEndsBelowStart(maxVel) == maxVel < PunchStartThreshold

\* when a punch is over: the detector goes back to idle
PunchEnds(maxVel) == maxVel < PunchEndThreshold

\* the frame effect (170-234) for a frame delivered dt after the last one
PunchFrame(dt, w) ==
    /\ page = "combat-punch"
    /\ punchStarted
    /\ perfNow + dt <= MaxPerfClock
    /\ Len(results) < MaxResults
    /\ perfNow' = perfNow + dt
    /\ poseLm' = [set |-> TRUE, wrist |-> w, ankle |-> 90]
    /\ LET t == perfNow + dt
           prev == punchPrevWristRef
           gap == IF prev.time > 0 THEN t - prev.time ELSE 0
           gate == gap > 0 /\ gap < 2
           maxVel == IF gate /\ prev.set THEN WristVel20(Abs(w - prev.x), gap) ELSE 0
           starts == gate /\ punchStateRef = "idle" /\ maxVel > PunchStartThreshold
           tracks == gate /\ ~starts /\ punchStateRef = "punching"
           peak == Max(maxVelocityRef, maxVel)
           ends == tracks /\ PunchEnds(maxVel)
           punchDuration == t - punchStartRef
           speed == RoundDiv(peak, 2)        \* tenths of a m/s
       IN  /\ punchStateRef' = IF starts THEN "punching"
                               ELSE IF ends THEN "idle" ELSE punchStateRef
           /\ punchStartRef' = IF starts THEN t ELSE punchStartRef
           /\ maxVelocityRef' = IF starts THEN maxVel
                                ELSE IF ends THEN 0
                                ELSE IF tracks THEN peak ELSE maxVelocityRef
           /\ results' = IF ends /\ punchDuration < PunchCeiling /\ speed > 15
                         THEN Append(results, [type |-> "punch", value |-> speed,
                                               duration |-> punchDuration * 100])
                         ELSE results
           /\ punchPrevWristRef' = [set |-> TRUE, x |-> w, time |-> t]
    /\ UNCHANGED <<page, restVars, punchStarted, kickVars, reactVars>>

PunchFrames == \E dt \in FrameGaps, w \in WristXs : PunchFrame(dt, w)

\* KickHeightMode.handleStart (310-322)
KickHandleStart ==
    /\ page = "combat-kick"
    /\ ~kickStarted
    /\ kickStarted' = TRUE
    /\ kickTimers' = kickTimers \cup {perfNow + CalibrationDelay}
    /\ UNCHANGED <<page, restVars, perfNow, poseLm, results, punchVars, baselineRef,
                   kickStateRef, maxHeightRef, kickStartRef, reactVars>>

\* the calibration timeout (317-320)
KickCalibrationTimer ==
    /\ page = "combat-kick"
    /\ \E due \in kickTimers :
          /\ due <= perfNow
          /\ kickTimers' = kickTimers \ {due}
    /\ baselineRef' = [state |-> "pending", bodyHeight2 |-> 0, ankleY |-> 0]
    /\ UNCHANGED <<page, restVars, perfNow, poseLm, results, punchVars, kickStarted,
                   kickStateRef, maxHeightRef, kickStartRef, reactVars>>

\* when a kick is over: the detector goes back to idle
KickEnds(liftNum, den) == liftNum < KickEndThreshold * den

\* the frame effect (324-390) for a frame delivered dt after the last one.
\* The shoulders are at y = 40 and the standing ankle at y = 90 (hundredths),
\* a is the y of the kicking ankle; its lift is liftNum / den percent of the
\* body height (den is twice the calibrated body height)
KickFrame(dt, a) ==
    /\ page = "combat-kick"
    /\ kickStarted
    /\ \A due \in kickTimers : due > perfNow
    /\ perfNow + dt <= MaxPerfClock
    /\ Len(results) < MaxResults
    /\ perfNow' = perfNow + dt
    /\ poseLm' = [set |-> TRUE, wrist |-> 0, ankle |-> a]
    /\ LET t == perfNow + dt
           bodyHeight2 == Abs(2 * 40 - (a + 90))
           den == baselineRef.bodyHeight2
           liftNum == Max((baselineRef.ankleY - a) * 200, 0)
           starts == kickStateRef = "idle" /\ liftNum > KickStartThreshold * den
           tracks == ~starts /\ kickStateRef = "kicking"
           peak == Max(maxHeightRef, liftNum)
           ends == tracks /\ KickEnds(liftNum, den)
           height == RoundDiv(peak, den)
           duration == t - kickStartRef
       IN  IF baselineRef.state = "pending"
           THEN /\ baselineRef' = [state |-> "set", bodyHeight2 |-> bodyHeight2, ankleY |-> a]
                /\ UNCHANGED <<kickStateRef, maxHeightRef, kickStartRef, results>>
           ELSE IF baselineRef.state = "null"
           THEN UNCHANGED <<baselineRef, kickStateRef, maxHeightRef, kickStartRef, results>>
           ELSE /\ kickStateRef' = IF starts THEN "kicking"
                                   ELSE IF ends THEN "idle" ELSE kickStateRef
                /\ kickStartRef' = IF starts THEN t ELSE kickStartRef
                /\ maxHeightRef' = IF starts THEN liftNum
                                   ELSE IF ends THEN 0
                                   ELSE IF tracks THEN peak ELSE maxHeightRef
                /\ results' = IF ends /\ height > 10 /\ duration < KickCeiling
                              THEN Append(results, [type |-> "kick", value |-> height])
                              ELSE results
                /\ UNCHANGED baselineRef
    /\ UNCHANGED <<page, restVars, punchVars, kickStarted, kickTimers, reactVars>>

KickFrames == \E dt \in FrameGaps, a \in AnkleYs : KickFrame(dt, a)

InitCombatPage ==
    /\ page \in {"combat-punch", "combat-kick"}
    /\ sessions = 0
    /\ InitCommon

NextCombat ==
    \/ PunchHandleStart
    \/ PunchFrames
    \/ KickHandleStart
    \/ KickCalibrationTimer
    \/ KickFrames

SpecCombat == InitCombatPage /\ [][NextCombat]_vars

\* C9: after every frame, a detector that is still in 'punching' / 'kicking'
\* has been there for less than its duration ceiling (1 s / 2 s).
C9_EpisodesEndByCeiling ==
    /\ punchStateRef = "punching" => perfNow - punchStartRef < PunchCeiling
    /\ kickStateRef = "kicking" => perfNow - kickStartRef < KickCeiling

\* the punch page alone, for the first MaxPunchClock tenths of a second
MaxPunchClock == 14

InitPunch ==
    /\ page = "combat-punch"
    /\ sessions = 0
    /\ InitCommon

PunchFramesEarly == PunchFrames /\ perfNow' <= MaxPunchClock

NextPunch == PunchHandleStart \/ PunchFramesEarly

SpecPunch == InitPunch /\ [][NextPunch]_vars

\* the wrist speed measured by the frame of this step, in twentieths of a m/s;
\* -1 when the frame measures none (first frame, or 0.2 s or more after the
\* frame before)
PunchStepSpeed ==
    LET gap == perfNow' - punchPrevWristRef.time
    IN  IF punchPrevWristRef.time > 0 /\ gap > 0 /\ gap < 2 /\ punchPrevWristRef.set
        THEN WristVel20(Abs(poseLm'.wrist - punchPrevWristRef.x), gap)
        ELSE -1

\* the highest speed of the episode up to and including this step
PunchStepPeak == IF PunchStepSpeed > maxVelocityRef THEN PunchStepSpeed ELSE maxVelocityRef

\* the parts of C24 that do not concern the reported value: a result is
\* appended only on a frame with speed below 0.8 m/s that ends an episode
\* which lasted less than 1 s and peaked above 1.5 m/s; an episode starts only
\* at a speed above 2.0 m/s; maxVelocityRef follows the highest speed; speeds
\* from 0.8 to 2.0 m/s leave the detector's state alone
PunchStepRules ==
    /\ results' # results =>
          /\ punchStateRef = "punching" /\ punchStateRef' = "idle"
          /\ PunchStepSpeed >= 0 /\ PunchStepSpeed < 16
          /\ Len(results') = Len(results) + 1
          /\ SubSeq(results', 1, Len(results)) = results
          /\ perfNow' - punchStartRef < 10
          /\ PunchStepPeak > 30
    /\ (punchStateRef = "idle" /\ punchStateRef' = "punching") =>
          PunchStepSpeed > 40 /\ maxVelocityRef' = PunchStepSpeed
    /\ (punchStateRef = "punching" /\ punchStateRef' = "punching" /\ PunchStepSpeed >= 0) =>
          maxVelocityRef' = PunchStepPeak
    /\ (PunchStepSpeed >= 16 /\ PunchStepSpeed <= 40) => punchStateRef' = punchStateRef

\* C24 as stated: the rules above, and the reported value (tenths of a m/s)
\* is the highest speed of the episode.
C24_ReportsPeakSpeed ==
    [][/\ PunchStepRules
       /\ results' # results => 2 * results'[Len(results')].value = PunchStepPeak]_vars

\* C24, amended: the rules above, and the reported value is the highest speed
\* of the episode rounded to one decimal, halves upwards.
C24_ReportsRoundedPeakSpeed ==
    [][/\ PunchStepRules
       /\ results' # results =>
             results'[Len(results')].value = (PunchStepPeak + 1) \div 2]_vars

\* a punch that peaked at 2.25 m/s was reported as 2.3 m/s
C24_PunchReportedRounded ==
    /\ page = "combat-punch"
    /\ Len(results) >= 1
    /\ results[Len(results)].type = "punch"
    /\ results[Len(results)].value = 23
    /\ punchStateRef = "idle"

-----------------------------------------------------------------------------
(* CombatReaction.jsx: ReactionChallengeMode.                               *)
(* The fastest of the tracked joints is a wrist x in hundredths of the      *)
(* frame.  A pending setTimeout is a record of rcTimers; it fires when the  *)
(* clock has reached the time it is due, and the clock does not pass a due  *)
(* timer.                                                                   *)

VelocityThreshold == 4        \* 0.04 normalised units per frame
ExpiryDelay == 30             \* setTimeout(..., 3000)

WaitDelays == {15, 30, 40}    \* 1500 + Math.random() * 3000, in [1500, 4500) ms
Prompts == {"LEFT JAB", "BLOCK!"}
ReactWristXs == {0, 5}

\* the movement test of the effect (519-543)
MovementDetected(prev, w) == prev.set /\ Abs(w - prev.x) > VelocityThreshold

\* the movement effect (512-551), run with the phase of the last render
MovementEffect ==
    IF rcPhase # "prompt" \/ ~poseLm'.set \/ detectedRef
    THEN UNCHANGED <<detectedRef, rcReactionTime, rcPhase, results, rcPrevWristRef>>
    ELSE /\ rcPrevWristRef' = [set |-> TRUE, x |-> poseLm'.wrist, time |-> 0]
         /\ IF MovementDetected(rcPrevWristRef, poseLm'.wrist)
            THEN /\ detectedRef' = TRUE
                 /\ rcReactionTime' = (perfNow - promptTimeRef) * 100
                 /\ rcPhase' = "result"
                 /\ results' = Append(results,
                                      [type |-> "reaction",
                                       value |-> (perfNow - promptTimeRef) * 100,
                                       label |-> "Response", round |-> rcRound])
            ELSE UNCHANGED <<detectedRef, rcReactionTime, rcPhase, results>>

\* a frame from the pose model: the effect runs for the new landmarks
ReactFrame(w) ==
    /\ page = "combat-challenge"
    /\ rcStarted
    /\ ~rcEffectDue
    /\ poseLm' = [set |-> TRUE, wrist |-> w, ankle |-> 90]
    /\ MovementEffect
    /\ UNCHANGED <<page, restVars, perfNow, punchVars, kickVars, rcStarted, rcCurrentPrompt,
                   rcRound, promptTimeRef, waitTimerRef, rcTimers, rcEffectDue, rcStarts,
                   rcShownAt>>

ReactFrames == \E w \in ReactWristXs : ReactFrame(w)

\* the effect re-run after the render that displays a prompt
ReactEffectRun ==
    /\ page = "combat-challenge"
    /\ rcEffectDue
    /\ rcEffectDue' = FALSE
    /\ poseLm' = poseLm
    /\ MovementEffect
    /\ UNCHANGED <<page, restVars, perfNow, punchVars, kickVars, rcStarted, rcCurrentPrompt,
                   rcRound, promptTimeRef, waitTimerRef, rcTimers, rcStarts, rcShownAt>>

\* the timers startRound leaves pending
TimersAfterStartRound(timers, armed) == timers \cup {armed}

\* startRound (486-509) up to the setTimeout call
startRound(delay) ==
    /\ rcStarts < MaxRounds
    /\ rcStarts' = rcStarts + 1
    /\ rcPhase' = "waiting"
    /\ rcCurrentPrompt' = "null"
    /\ rcReactionTime' = -1
    /\ detectedRef' = FALSE
    /\ waitTimerRef' = rcStarts + 1
    /\ rcTimers' = TimersAfterStartRound(rcTimers,
                       [kind |-> "wait", due |-> perfNow + delay, id |-> rcStarts + 1])

\* ReactionChallengeMode.handleStart (477-484)
ReactHandleStart ==
    /\ page = "combat-challenge"
    /\ ~rcStarted
    /\ rcStarted' = TRUE
    /\ \E delay \in WaitDelays : startRound(delay)
    /\ UNCHANGED <<page, restVars, perfNow, poseLm, results, punchVars, kickVars, rcRound,
                   promptTimeRef, rcPrevWristRef, rcEffectDue, rcShownAt>>

\* the result overlay's onClick (634-639)
ReactClick ==
    /\ page = "combat-challenge"
    /\ rcStarted
    /\ ~rcEffectDue
    /\ rcPhase = "result"
    /\ \E delay \in WaitDelays : startRound(delay)
    /\ UNCHANGED <<page, restVars, perfNow, poseLm, results, punchVars, kickVars, rcStarted,
                   rcRound, promptTimeRef, rcPrevWristRef, rcEffectDue, rcShownAt>>

\* the wait timer's callback (493-508)
ReactWaitTimer ==
    /\ page = "combat-challenge"
    /\ ~rcEffectDue
    /\ \E tm \in rcTimers, prompt \in Prompts :
          /\ tm.kind = "wait"
          /\ tm.due <= perfNow
          /\ rcCurrentPrompt' = prompt
          /\ rcPhase' = "prompt"
          /\ promptTimeRef' = perfNow
          /\ rcRound' = rcRound + 1
          /\ rcShownAt' = Append(rcShownAt, perfNow)
          /\ rcTimers' = (rcTimers \ {tm}) \cup
                         {[kind |-> "expire", due |-> perfNow + ExpiryDelay, id |-> tm.id]}
          /\ rcEffectDue' = (rcPhase # "prompt" \/ rcCurrentPrompt # prompt)
    /\ UNCHANGED <<page, restVars, perfNow, poseLm, results, punchVars, kickVars, rcStarted,
                   rcReactionTime, rcPrevWristRef, detectedRef, waitTimerRef, rcStarts>>

\* the auto-expire callback (501-507)
ReactExpiryTimer ==
    /\ page = "combat-challenge"
    /\ ~rcEffectDue
    /\ \E tm \in rcTimers :
          /\ tm.kind = "expire"
          /\ tm.due <= perfNow
          /\ rcTimers' = rcTimers \ {tm}
    /\ IF ~detectedRef
       THEN /\ rcPhase' = "result"
            /\ rcReactionTime' = 3000
            /\ results' = Append(results, [type |-> "reaction", value |-> 3000,
                                           label |-> "Timeout", round |-> rcRound])
       ELSE UNCHANGED <<rcPhase, rcReactionTime, results>>
    /\ UNCHANGED <<page, restVars, perfNow, poseLm, punchVars, kickVars, rcStarted,
                   rcCurrentPrompt, rcRound, promptTimeRef, rcPrevWristRef, detectedRef,
                   waitTimerRef, rcEffectDue, rcStarts, rcShownAt>>

\* half a second passes with no timer due
ReactTick ==
    /\ page = "combat-challenge"
    /\ rcStarted
    /\ ~rcEffectDue
    /\ \A tm \in rcTimers : tm.due > perfNow
    /\ perfNow < MaxPerfClock
    /\ perfNow' = perfNow + 5
    /\ UNCHANGED <<page, restVars, poseLm, results, punchVars, kickVars, reactVars>>

InitReaction ==
    /\ page = "combat-challenge"
    /\ sessions = 0
    /\ InitCommon

NextReaction ==
    \/ ReactHandleStart
    \/ ReactClick
    \/ ReactWaitTimer
    \/ ReactExpiryTimer
    \/ ReactEffectRun
    \/ ReactFrames
    \/ ReactTick

SpecReaction == InitReaction /\ [][NextReaction]_vars

ResultsOf(label, k) ==
    {i \in DOMAIN results : results[i].label = label /\ results[i].round = k}

\* stimulus k has been on display for 3000 ms and every timer due has fired
StimulusExpired(k) ==
    /\ rcShownAt[k] + ExpiryDelay <= perfNow
    /\ \A tm \in rcTimers : tm.due > perfNow

\* C7: a stimulus that drew no detected movement within 3000 ms gets the
\* result {reaction, 3000} exactly once, and no stimulus gets it twice.
C7_TimeoutExactlyOnce ==
    \A k \in 1..rcRound :
        /\ Cardinality(ResultsOf("Timeout", k)) <= 1
        /\ (StimulusExpired(k) /\ ResultsOf("Response", k) = {})
              => Cardinality(ResultsOf("Timeout", k)) = 1

PhaseEdges == {<<"idle", "waiting">>, <<"waiting", "prompt">>,
               <<"prompt", "result">>, <<"result", "waiting">>}

\* C8: the phase moves only waiting -> prompt -> result (and back to waiting
\* on the click), and a result is recorded only on leaving the prompt phase,
\* one per round.
C8_OneResultPerRound ==
    [][/\ rcPhase' # rcPhase => <<rcPhase, rcPhase'>> \in PhaseEdges
       /\ results' # results => /\ rcPhase = "prompt" /\ rcPhase' = "result"
                                /\ Len(results') = Len(results) + 1]_vars

-----------------------------------------------------------------------------
(* cheatDetection.js as called by PushUpTest: sessions run one after the    *)
(* other on the page, the athlete moving in the frame between the frames.   *)

CheatElbowPairs == {<<90, 90>>, <<170, 170>>}
CheatNoseXs == {20, 50, 60}
CheatFrames == {MkFrame(p[1], p[2], 170, 50, 50, 50, nx, 30) :
                    p \in CheatElbowPairs, nx \in CheatNoseXs}

CheatPushUpFrame == \E f \in CheatFrames : PuFrame(f)

InitCheat ==
    /\ page = "pushups"
    /\ sessions = 0
    /\ InitCommon

NextCheat ==
    \/ CheatPushUpFrame
    \/ PuHandleStart
    \/ PuHandleStop

SpecCheat == InitCheat /\ [][NextCheat]_vars

\* C10: the first frame a session processes never reports a video cut (the
\* snapshot it is compared with belongs to the session).
C10_FirstFrameNoCut ==
    (puActive /\ puSessFrames = 1) => "cut" \notin puCheatAlerts

-----------------------------------------------------------------------------
(* cheatDetection.js on its own: runCheatDetection is called frame after    *)
(* frame, with any context and any expected activity.                       *)

\* a clean frame: one person standing in the middle, nose at (nx, 0.3)
CleanFrame(nx) == MkFrame(170, 170, 170, 50, 55, 50, nx, 30)
Still == CleanFrame(30)

\* the athlete moves: by 0.05, by exactly 0.3, by 0.6, diagonally by 0.32,
\* or the shoulder alone moves by 0.4
MovedFrames ==
    {CleanFrame(nx) : nx \in {30, 35, 60, 90}}
      \cup {[Still EXCEPT !.nx = 50, !.ny = 55, !.sx = 50, !.sy = 75, !.hy = 80, !.ky = 90],
            [Still EXCEPT !.sx = 70]}
\* null landmarks, an empty array, and arrays that stop before the left
\* shoulder, the hips, the knees or the last landmark
ShortFrames ==
    {NoFrame} \cup {[Still EXCEPT !.count = n] : n \in {0, 10, 20, 25, 32}}
\* a second silhouette stretches the shoulders or the hips
CrowdFrames == {[Still EXCEPT !.sw = 70], [Still EXCEPT !.hw = 70]}
\* nose, eyes, shoulders or hips hidden, everything hidden, nose at 0.3
HiddenFrames ==
    {[Still EXCEPT !.nv = 10], [Still EXCEPT !.ev = 10], [Still EXCEPT !.sv = 10],
     [Still EXCEPT !.hv = 10], [Still EXCEPT !.nv = 30],
     [Still EXCEPT !.nv = 10, !.ev = 10, !.sv = 10, !.av = 10, !.hv = 10]}
\* too far to the side, too close, too far away
AngleFrames ==
    {[Still EXCEPT !.nx = 5, !.sx = 5], [Still EXCEPT !.nx = 95, !.sx = 95],
     [Still EXCEPT !.ny = 3, !.sy = 23], [Still EXCEPT !.hy = 35]}
\* standing tall (wrong for push-ups), lying flat (wrong for squats and
\* jumps), thighs level (flagged for wall-sit), hips at the top edge
PostureFrames ==
    {[Still EXCEPT !.ny = 20, !.sy = 40, !.hy = 60], [Still EXCEPT !.hy = 32, !.ay = 33],
     [Still EXCEPT !.ay = 35], [Still EXCEPT !.ky = 56], [Still EXCEPT !.hy = 0]}
DetectFrames ==
    MovedFrames \cup ShortFrames \cup CrowdFrames \cup HiddenFrames \cup AngleFrames
      \cup PostureFrames

\* no context, a lit one, a dark one, one at the limit, one that throws
Contexts == {NoCtx, [set |-> TRUE, throws |-> FALSE, avg |-> 200],
             [set |-> TRUE, throws |-> FALSE, avg |-> 10],
             [set |-> TRUE, throws |-> FALSE, avg |-> 30],
             [set |-> TRUE, throws |-> TRUE, avg |-> 0]}
ExpectedActivities == {"", "pushups", "squats", "wall-sit", "broad-jump", "sprint"}

\* the frame and the arguments by themselves pass the checks that look at one
\* frame only: extra people, camera angle, malpractice, lighting
CleanCall(f, ctx, act) ==
    /\ checkNoExtraPeople(f)
    /\ checkCameraAngle(f)
    /\ ~(act # "" /\ checkMalpractice(act, f))
    /\ ~(ctx.set /\ ~checkBrightness(ctx))

\* one call of runCheatDetection
DetectCall(f, ctx, act) ==
    /\ page = "detector"
    /\ LET r == runCheatDetection(prevLandmarkPositions, f, ctx, act)
       IN  /\ cdResult' = [called |-> TRUE, alerts |-> r.alerts, warnings |-> r.warnings,
                           isValid |-> r.isValid,
                           shouldShowRedOverlay |-> r.shouldShowRedOverlay,
                           clean |-> CleanCall(f, ctx, act)]
           /\ prevLandmarkPositions' = r.snap
    /\ cdPrev' = cdResult
    /\ landmarks' = f
    /\ UNCHANGED <<page, combatVars, storeVars, moreVars, sessions, now, assessVars, pushVars,
                   scoreVars>>

\* every frame with every expected activity and no context (what the pages
\* pass), and every context with the frames that differ in the other checks
CtxFrames == {NoFrame, Still, CleanFrame(90), [Still EXCEPT !.sw = 70],
              [Still EXCEPT !.ny = 20, !.sy = 40, !.hy = 60]}
DetectFrame ==
    \/ \E f \in DetectFrames, act \in ExpectedActivities : DetectCall(f, NoCtx, act)
    \/ \E f \in CtxFrames, ctx \in Contexts \ {NoCtx}, act \in {"", "pushups"} :
          DetectCall(f, ctx, act)

InitDetect ==
    /\ page = "detector"
    /\ sessions = 0
    /\ InitCommon

NextDetect == DetectFrame

SpecDetect == InitDetect /\ [][NextDetect]_vars

\* the frame carries the nose and the left shoulder
HasPositions(f) == Has(f, 0) /\ Has(f, 11)
\* squared displacement of nose and of left shoulder between two frames
NoseMoveSq(f, g) == (g.nx - f.nx) * (g.nx - f.nx) + (g.ny - f.ny) * (g.ny - f.ny)
ShoulderMoveSq(f, g) == (g.sx - f.sx) * (g.sx - f.sx) + (g.sy - f.sy) * (g.sy - f.sy)

\* C11: a call flags a cut exactly when the nose or the left shoulder moved
\* by more than 0.3 since the frame of the call before; after every frame
\* with nose and shoulder the snapshot is that frame, flagged or not, so a
\* frame that repeats a flagged one is not flagged again.
C11_CutIffMovedMoreThan03 ==
    [][LET f == landmarks
           g == landmarks'
           cut == "cut" \in cdResult'.alerts
       IN  /\ cut <=> /\ HasPositions(f) /\ HasPositions(g)
                      /\ NoseMoveSq(f, g) > 900 \/ ShoulderMoveSq(f, g) > 900
           /\ HasPositions(g) => prevLandmarkPositions' = Snapshot(g)
           /\ ("cut" \in cdResult.alerts /\ HasPositions(g)
                 /\ NoseMoveSq(f, g) = 0 /\ ShoulderMoveSq(f, g) = 0) => ~cut]_vars

\* a jump was flagged on the frame before, and the still frame after it is not
C11_JumpThenStill ==
    /\ "cut" \in cdPrev.alerts
    /\ "cut" \notin cdResult.alerts
    /\ cdResult.called
    /\ landmarks = CleanFrame(90)

\* C12: a result with no alert is valid (warnings alone never invalidate).
C12_NoAlertsIsValid == cdResult.alerts = {} => cdResult.isValid

\* C13: a result that reports an extra person, a video cut or malpractice
\* shows the red overlay and is invalid; the overlay is shown exactly when
\* there is an alert.
C13_HardAlertsInvalidate ==
    /\ cdResult.alerts \cap {"people", "cut", "malpractice"} # {}
          => cdResult.shouldShowRedOverlay /\ ~cdResult.isValid
    /\ cdResult.shouldShowRedOverlay <=> cdResult.alerts # {}

\* C14: whatever the calls before returned, a frame that passes the
\* one-frame checks and lies within 0.3 of the frame before it (or follows
\* a frame without nose or shoulder) is valid and raises no alert.
C14_ValidityNotLatched ==
    [][LET f == landmarks
           g == landmarks'
           near == HasPositions(f) /\ HasPositions(g)
                     => NoseMoveSq(f, g) <= 900 /\ ShoulderMoveSq(f, g) <= 900
       IN  (cdResult'.clean /\ near) => cdResult'.isValid /\ cdResult'.alerts = {}]_vars

\* an invalid result is followed by a valid one with no alert
C14_ValidAfterInvalid ==
    /\ cdPrev.called /\ ~cdPrev.isValid
    /\ cdResult.isValid /\ cdResult.alerts = {} /\ cdResult.clean
    /\ HasPositions(landmarks)

-----------------------------------------------------------------------------
(* Assessment and PushUpTest when the pose model delivers null or short     *)
(* landmark arrays between full frames.                                     *)

\* two full frames (squat bottom and standing; elbow bent and straight)
FullFrames == {MkFrame(90, 90, 170, 50, 50, 50, 50, 30),
               MkFrame(170, 170, 170, 50, 50, 50, 50, 30)}

ShortAssessFrame ==
    /\ isActive => totalFramesRef < MaxFrames
    /\ \E f \in FullFrames \cup ShortFrames : AsFrame(f)

ShortPushUpFrame == \E f \in FullFrames \cup ShortFrames : PuFrame(f)

NextShort ==
    \/ ShortAssessFrame
    \/ HandleStart
    \/ HandleStop
    \/ ShortPushUpFrame
    \/ PuHandleStart
    \/ PuHandleStop

SpecShort == Init /\ [][NextShort]_vars

\* C15: a frame with fewer than 33 landmarks, or none, changes no activity
\* state (phase, counts, form scores, frame counters) and no validity state
\* (the video-cut snapshot).
C15_ShortFrameChangesNothing ==
    [][(landmarks' # landmarks /\ ~extractLandmarks(landmarks'))
          => UNCHANGED <<metrics, formScores, phaseRef, startTimeRef, stableFramesRef,
                         totalFramesRef, jumpStartRef, prevHipYRef, pushVars,
                         prevLandmarkPositions>>]_vars

-----------------------------------------------------------------------------
(* offlineStorage.js and syncService.js: saveTestResult and syncResults     *)
(* calls run concurrently, each one step per await, while the browser goes  *)
(* online and offline.                                                      *)

QueuedIds == {q.resultId : q \in dbQueue}

\* `if (!navigator.onLine)` after the record was added (offlineStorage.js 64)
ShouldQueue(record, onLine) == ~onLine

\* saveTestResult up to its first db.add: the record takes synced from
\* navigator.onLine and is stored under the next id
SaveAdd ==
    /\ page = "storage"
    /\ Len(saves) < MaxSaves
    /\ LET id == Len(dbResults) + 1
           record == [synced |-> online]
       IN  /\ dbResults' = Append(dbResults, record)
           /\ saves' = Append(saves, [pc |-> "added", id |-> id, record |-> record])
    /\ UNCHANGED <<online, dbQueue, syncs, everQueued, submitted>>
    /\ UNCHANGED <<page, combatVars, detectVars, moreVars, restVarsNoLib>>

\* saveTestResult after the add resolved: navigator.onLine is read again and
\* the record is queued if the browser is offline now
SaveQueue(k) ==
    /\ page = "storage"
    /\ saves[k].pc = "added"
    /\ saves' = [saves EXCEPT ![k].pc = "done"]
    /\ IF ShouldQueue(saves[k].record, online)
       THEN /\ dbQueue' = dbQueue \cup {[resultId |-> saves[k].id,
                                          synced |-> saves[k].record.synced]}
            /\ everQueued' = everQueued \cup {saves[k].id}
       ELSE UNCHANGED <<dbQueue, everQueued>>
    /\ UNCHANGED <<online, dbResults, syncs, submitted>>
    /\ UNCHANGED <<page, combatVars, detectVars, moreVars, restVarsNoLib>>

SaveContinue == \E k \in 1..Len(saves) : SaveQueue(k)

\* the browser loses or regains its connection
GoOffline ==
    /\ page = "storage"
    /\ online
    /\ online' = FALSE
    /\ UNCHANGED <<dbResults, dbQueue, saves, syncs, everQueued, submitted>>
    /\ UNCHANGED <<page, combatVars, detectVars, moreVars, restVarsNoLib>>

GoOnline ==
    /\ page = "storage"
    /\ ~online
    /\ online' = TRUE
    /\ UNCHANGED <<dbResults, dbQueue, saves, syncs, everQueued, submitted>>
    /\ UNCHANGED <<page, combatVars, detectVars, moreVars, restVarsNoLib>>

\* syncResults is called: offline it returns at once, online it asks for the queue
SyncStart ==
    /\ page = "storage"
    /\ Len(syncs) < MaxSyncs
    /\ syncs' = Append(syncs, [pc |-> IF online THEN "read" ELSE "done", queue |-> {},
                               success |-> FALSE])
    /\ UNCHANGED <<online, dbResults, dbQueue, saves, everQueued, submitted>>
    /\ UNCHANGED <<page, combatVars, detectVars, moreVars, restVarsNoLib>>

\* getSyncQueue resolved: an empty queue ends the call, another is submitted
SyncRead(j) ==
    /\ page = "storage"
    /\ syncs[j].pc = "read"
    /\ syncs' = [syncs EXCEPT ![j] = [pc |-> IF dbQueue = {} THEN "done" ELSE "submit",
                                      queue |-> dbQueue, success |-> dbQueue = {}]]
    /\ UNCHANGED <<online, dbResults, dbQueue, saves, everQueued, submitted>>
    /\ UNCHANGED <<page, combatVars, detectVars, moreVars, restVarsNoLib>>

\* submitToAPI resolved with success: true (it always does)
SyncSubmitted(j) ==
    /\ page = "storage"
    /\ syncs[j].pc = "submit"
    /\ syncs' = [syncs EXCEPT ![j].pc = "mark"]
    /\ submitted' = submitted \cup {q.resultId : q \in syncs[j].queue}
    /\ UNCHANGED <<online, dbResults, dbQueue, saves, everQueued>>
    /\ UNCHANGED <<page, combatVars, detectVars, moreVars, restVarsNoLib>>

\* markResultsSynced(ids): every result of the submitted queue that exists
markResultsSynced(store, ids) ==
    [i \in 1..Len(store) |-> IF i \in ids THEN [store[i] EXCEPT !.synced = TRUE]
                             ELSE store[i]]

SyncMark(j) ==
    /\ page = "storage"
    /\ syncs[j].pc = "mark"
    /\ syncs' = [syncs EXCEPT ![j].pc = "clear"]
    /\ dbResults' = markResultsSynced(dbResults, {q.resultId : q \in syncs[j].queue})
    /\ UNCHANGED <<online, dbQueue, saves, everQueued, submitted>>
    /\ UNCHANGED <<page, combatVars, detectVars, moreVars, restVarsNoLib>>

\* clearSyncQueue: the whole store is cleared
SyncClear(j) ==
    /\ page = "storage"
    /\ syncs[j].pc = "clear"
    /\ syncs' = [syncs EXCEPT ![j].pc = "done", ![j].success = TRUE]
    /\ dbQueue' = {}
    /\ UNCHANGED <<online, dbResults, saves, everQueued, submitted>>
    /\ UNCHANGED <<page, combatVars, detectVars, moreVars, restVarsNoLib>>

SyncContinue ==
    \E j \in 1..Len(syncs) :
        SyncRead(j) \/ SyncSubmitted(j) \/ SyncMark(j) \/ SyncClear(j)

InitStore ==
    /\ page = "storage"
    /\ sessions = 0
    /\ InitCommon

NextStore ==
    \/ SaveAdd
    \/ SaveContinue
    \/ GoOffline
    \/ GoOnline
    \/ SyncStart
    \/ SyncContinue

SpecStore == InitStore /\ [][NextStore]_vars

\* C16: when a saveTestResult call returns it has stored exactly one record;
\* a record stored with synced = false is in the sync queue, and a record
\* stored with synced = true is not, whenever the connection changed.
C16_SavedRecordQueuedIffUnsynced ==
    [][\A k \in 1..Len(saves) :
          (saves[k].pc = "added" /\ saves'[k].pc = "done") =>
              LET id == saves[k].id
              IN  /\ id \in 1..Len(dbResults')
                  /\ \A m \in 1..Len(saves) : m # k => saves[m].id # id
                  /\ ~dbResults'[id].synced => id \in {q.resultId : q \in dbQueue'}
                  /\ ~(dbResults'[id].synced /\ id \in {q.resultId : q \in dbQueue'})]_vars

\* C17: a result that was queued is still in the queue unless it was part
\* of a successful submission and is marked synced.
C17_QueuedResultNeverDropped ==
    \A id \in everQueued :
        id \in {q.resultId : q \in dbQueue} \/ (id \in submitted /\ dbResults[id].synced)

-----------------------------------------------------------------------------
(* A wall-sit session fed from a script while the wall clock advances.      *)

\* knees at 60 (bad), 84/86 (average 85, in posture), 90 (in posture),
\* 100/101 (average 100.5, just out of posture)
WallPairs == {<<60, 60>>, <<84, 86>>, <<90, 90>>, <<100, 101>>}
WallFrames == {MkFrame(p[1], p[2], 170, 50, 50, 50, 50, 30) : p \in WallPairs}

InitWallSit == InitScriptedFor("wall-sit", WallFrames)

\* half a second passes
WallTick ==
    /\ page = "assessment"
    /\ activity = "wall-sit"
    /\ isActive
    /\ now < MaxWallClock
    /\ now' = now + 1
    /\ UNCHANGED <<page, combatVars, libVars, sessions, landmarks, assessVars, pushVars,
                   cheatVars, scoreVars>>

NextWallSit ==
    \/ ScriptFrame
    \/ WallTick

SpecWallSit == InitWallSit /\ [][NextWallSit]_vars

\* the i-th frame of the script has its average knee angle in [85, 100]
InPosture(i) == script[i].l + script[i].r >= 2 * 85 /\ script[i].l + script[i].r <= 2 * 100
\* the frames processed so far that were in posture
ScriptInPosture(n) == {i \in 1..n : InPosture(i)}

\* C19: after each frame stabilityScore is round(100 * frames in posture /
\* frames counted since the timer started), the frames before the first
\* frame in posture not being counted.
C19_StabilityOverFramesSinceStart ==
    LET n == totalFramesRef
        valid == ScriptInPosture(n)
        first == CHOOSE i \in valid : \A j \in valid : i <= j
    IN  n > 0 =>
          metrics.stabilityScore =
             IF valid = {} THEN 0
             ELSE RoundDiv(100 * Cardinality(valid), n - first + 1)

\* C20: a frame sets startTimeRef when it is the first one in posture and
\* otherwise leaves it alone; holdDuration is the whole seconds since then,
\* in posture or not, and never decreases.
C20_TimerSetOnceHoldAccrues ==
    [][totalFramesRef' = totalFramesRef + 1 =>
          /\ startTimeRef # 0 => startTimeRef' = startTimeRef
          /\ startTimeRef = 0 =>
                startTimeRef' = IF InPosture(totalFramesRef') THEN now ELSE 0
          /\ metrics'.holdDuration =
                IF startTimeRef' # 0 THEN (now - startTimeRef') \div 2 ELSE 0
          /\ metrics'.holdDuration >= metrics.holdDuration]_vars

\* the timer started, and a later frame out of posture shows a longer hold
C20_HoldGrowsOutOfPosture ==
    /\ totalFramesRef >= 2
    /\ ~InPosture(totalFramesRef)
    /\ startTimeRef # 0
    /\ metrics.holdDuration >= 1
    /\ metrics.phase = "rest"

-----------------------------------------------------------------------------
(* useActivityLogic.js with an activity outside ACTIVITIES *)

\* getActivityConfig(): the key of the configuration returned
getActivityConfig(act) == IF act \in Activities THEN act ELSE "squats"

\* a session of an activity the hook does not know, fed from a script
InitUnknown == InitScriptedFor("plank", ScriptFrames)

UnknownFrame == ScriptFrame

SpecUnknown == InitUnknown /\ [][UnknownFrame]_vars

\* the state of a squats session after the first n frames of the script
RECURSIVE SquatsRun(_)
SquatsRun(n) ==
    IF n = 0
    THEN [metrics |-> InitMetrics, formScores |-> <<>>, phaseRef |-> "idle",
          startTimeRef |-> 0, stableFramesRef |-> 0, totalFramesRef |-> 0,
          jumpStartRef |-> NoJump, prevHipYRef |-> NoHip]
    ELSE processFrame(SquatsRun(n - 1), "squats", TRUE, script[n], now, <<>>)

\* C27: with an activity outside the known ones the configuration is that of
\* squats, and the frames of the session are handled as those of a squats
\* session.
C27_UnknownActivityRunsAsSquats ==
    activity \notin Activities =>
        /\ getActivityConfig(activity) = "squats"
        /\ Cur = SquatsRun(totalFramesRef)

-----------------------------------------------------------------------------
(* pages/VerticalJump.jsx *)

\* attempts explored in one run
MaxAttempts == 2

\* the number of hip samples after which a landing is scored
StabilitySamples == 15
\* takeoff: rise of the hip between two frames, in hundredths
TakeoffRise == 4
\* landing: drop of the hip below the peak, in hundredths
LandingDrop == 3

VjPhases == {"idle", "calibrating", "ready", "jumping", "landed"}

\* the page's state as one record
VjCur == [phase |-> vjPhase, standing |-> vjStandingRef, peak |-> vjPeakRef,
          prevHipY |-> vjPrevHipY, samples |-> vjSamples, jumpHeight |-> vjJumpHeight,
          powerScore |-> vjPowerScore, attempts |-> vjAttempts, bestJump |-> vjBestJump,
          overlay |-> vjShowRedOverlay, seen |-> vjSeen, snap |-> prevLandmarkPositions]

VjAssign(V) ==
    /\ vjPhase' = V.phase
    /\ vjStandingRef' = V.standing
    /\ vjPeakRef' = V.peak
    /\ vjPrevHipY' = V.prevHipY
    /\ vjSamples' = V.samples
    /\ vjJumpHeight' = V.jumpHeight
    /\ vjPowerScore' = V.powerScore
    /\ vjAttempts' = V.attempts
    /\ vjBestJump' = V.bestJump
    /\ vjShowRedOverlay' = V.overlay
    /\ vjSeen' = V.seen
    /\ prevLandmarkPositions' = V.snap

\* (peakRef.current || 1): null and 0 count as 1
PeakOrOne(peak) == IF peak = -1 \/ peak = 0 THEN 100 ELSE peak
\* (standingRef.current || 0.5): null and 0 count as 0.5
StandingOrHalf(standing) == IF standing = -1 \/ standing = 0 THEN 50 ELSE standing

\* faulty variant: the peak stays at the hip height of the takeoff
VjPeakFrozen(peak, hipY) == peak

\* peakRef after a frame of the jumping phase
VjPeak(peak, hipY) == IF hipY < PeakOrOne(peak) THEN hipY ELSE peak

\* heightCm and power at a landing
HeightCm(standing, peak) == Max(0, (StandingOrHalf(standing) - peak) * 3)
PowerOf(heightCm) == Min(100, RoundDiv(heightCm * 100, 70))

\* one run of the frame effect on landmarks f.  The stability value of an
\* attempt and the feedback dialog are left out; samples is the length of
\* stabilityFrames, seen the hip heights of the runs of the jumping phase.
VjEffect(V, f) ==
    IF ~f.set \/ V.phase = "idle" THEN V
    ELSE IF ~extractLandmarks(f) THEN V
    ELSE
    LET r == runCheatDetection(V.snap, f, NoCtx, "vertical-jump")
        V0 == [V EXCEPT !.snap = r.snap, !.overlay = r.shouldShowRedOverlay]
        hipY == f.hy
        wristY == f.wy
    IN  CASE V.phase = "calibrating" ->
               IF V.standing = -1 \/ V.standing = 0 \/ wristY < V.standing
               THEN [V0 EXCEPT !.standing = wristY] ELSE V0
          [] V.phase = "ready" ->
               IF V.prevHipY # -1 /\ V.prevHipY - hipY > TakeoffRise
               THEN [V0 EXCEPT !.phase = "jumping", !.peak = hipY, !.prevHipY = hipY,
                               !.seen = {}]
               ELSE [V0 EXCEPT !.prevHipY = hipY]
          [] V.phase = "jumping" ->
               LET peak == VjPeak(V.peak, hipY)
                   V1 == [V0 EXCEPT !.peak = peak, !.prevHipY = hipY,
                                    !.seen = V.seen \cup {hipY}]
               IN  IF V.prevHipY # -1 /\ hipY > peak + LandingDrop
                   THEN [V1 EXCEPT !.jumpHeight = HeightCm(V.standing, peak),
                                   !.powerScore = PowerOf(HeightCm(V.standing, peak)),
                                   !.phase = "landed", !.samples = 0]
                   ELSE V1
          [] V.phase = "landed" ->
               IF V.samples + 1 >= StabilitySamples
               THEN [V0 EXCEPT !.samples = V.samples + 1,
                               !.attempts = Append(V.attempts,
                                                   [height |-> V.jumpHeight,
                                                    power |-> V.powerScore]),
                               !.bestJump = Max(V.bestJump, V.jumpHeight),
                               !.phase = "idle", !.overlay = FALSE]
               ELSE [V0 EXCEPT !.samples = V.samples + 1]

\* the effect runs again when phase, jumpHeight or powerScore changed
VjRerun(V, W, f) ==
    IF W.phase # V.phase \/ W.jumpHeight # V.jumpHeight \/ W.powerScore # V.powerScore
    THEN VjEffect(W, f) ELSE W

\* a new value of landmarks
VjFrame(f) ==
    /\ page = "vertical-jump"
    /\ landmarks' = f
    /\ VjAssign(VjRerun(VjCur, VjEffect(VjCur, f), f))
    /\ UNCHANGED <<page, combatVars, detectVars, storeVars, drillVars, beepVars,
                   sessions, now, assessVars,
                   pushVars, scoreVars>>

\* the Start button, enabled in the idle phase
VjHandleStart ==
    /\ page = "vertical-jump"
    /\ vjPhase = "idle"
    /\ Len(vjAttempts) < MaxAttempts
    /\ LET W == [VjCur EXCEPT !.standing = -1, !.peak = -1, !.prevHipY = -1,
                              !.phase = "calibrating", !.jumpHeight = 0,
                              !.powerScore = 0, !.seen = {}]
       IN  VjAssign(VjRerun(VjCur, W, landmarks))
    /\ UNCHANGED <<page, combatVars, detectVars, storeVars, drillVars, beepVars,
                   sessions, now, landmarks,
                   assessVars, pushVars, scoreVars>>

\* the Ready button, shown in the calibrating phase
VjReady ==
    /\ page = "vertical-jump"
    /\ vjPhase = "calibrating"
    /\ VjAssign(VjRerun(VjCur, [VjCur EXCEPT !.phase = "ready"], landmarks))
    /\ UNCHANGED <<page, combatVars, detectVars, storeVars, drillVars, beepVars,
                   sessions, now, landmarks,
                   assessVars, pushVars, scoreVars>>

\* frames of a person in the middle of the picture: hips at four heights with
\* the wrists at the side, standing with a wrist above the head, and no person
VjHips == {40, 43, 44, 50}
VjPose(h, w) == [MkFrame(170, 170, 170, 50, h, 50, 50, 30) EXCEPT !.wy = w]
VjFrames == {VjPose(h, 60) : h \in VjHips} \cup {VjPose(50, 20), NoFrame}

VjNewFrame == \E f \in VjFrames : VjFrame(f)

InitVertical ==
    /\ page = "vertical-jump"
    /\ sessions = 0
    /\ InitCommon

NextVertical == VjHandleStart \/ VjReady \/ VjNewFrame

SpecVertical == InitVertical /\ [][NextVertical]_vars

\* the phase changes of one cycle
VjCycle == {<<"idle", "calibrating">>, <<"calibrating", "ready">>, <<"ready", "jumping">>,
            <<"jumping", "landed">>, <<"landed", "idle">>}

\* the lowest of a set of heights
Lowest(S) == CHOOSE x \in S : \A y \in S : x <= y

-----------------------------------------------------------------------------
(* pages/TTestDrill.jsx: TTestDrill (page "t-test") and SprintTest (page     *)
(* "sprint").  The two components have the same phases and buttons; the     *)
(* T-test tracks the hip x and keeps dirRef, the sprint tracks the ankle y  *)
(* and keeps movingUp.  The timer and the result shown at the finish are    *)
(* left out.                                                                *)

\* counted events explored in one run
MaxEvents == 3

\* the dead-zone of both drills, in hundredths
DeadZone == 1

DrCur == [phase |-> drPhase, prev |-> drPrev, dir |-> drDirRef, movingUp |-> drMovingUp,
          count |-> drCount, overlay |-> drShowRedOverlay, lastSign |-> drLastSign,
          reversals |-> drReversals, snap |-> prevLandmarkPositions]

DrAssign(D) ==
    /\ drPhase' = D.phase
    /\ drPrev' = D.prev
    /\ drDirRef' = D.dir
    /\ drMovingUp' = D.movingUp
    /\ drCount' = D.count
    /\ drShowRedOverlay' = D.overlay
    /\ drLastSign' = D.lastSign
    /\ drReversals' = D.reversals
    /\ prevLandmarkPositions' = D.snap

Sign(d) == IF d > 0 THEN 1 ELSE IF d < 0 THEN -1 ELSE 0

\* the coordinate a drill tracks
Tracked(pg, f) == IF pg = "t-test" THEN f.hx ELSE f.ay

\* the record of the movements since Go: a movement beyond the dead-zone
\* against the last such movement is a reversal
NoteMovement(D, d) ==
    IF Abs(d) > DeadZone
    THEN [D EXCEPT !.lastSign = Sign(d),
                   !.reversals = IF D.lastSign # 0 /\ Sign(d) # D.lastSign
                                 THEN D.reversals + 1 ELSE D.reversals]
    ELSE D

\* TTestDrill: direction and count after a movement dx of the hip (59-67)
TTestMove(D, dx) ==
    IF Abs(dx) > DeadZone
    THEN LET newDir == IF dx > 0 THEN "right" ELSE "left"
         IN  [D EXCEPT !.dir = newDir,
                       !.count = IF D.dir # "" /\ newDir # D.dir THEN D.count + 1
                                 ELSE D.count]
    ELSE D

\* SprintTest: movingUp and count after a movement delta of the ankles (302-306)
SprintMove(D, delta) ==
    IF delta < -DeadZone /\ ~D.movingUp THEN [D EXCEPT !.movingUp = TRUE]
    ELSE IF delta > DeadZone /\ D.movingUp
    THEN [D EXCEPT !.movingUp = FALSE, !.count = D.count + 1]
    ELSE D

\* one run of the frame effect of page pg on landmarks f
DrEffect(pg, D, f) ==
    IF ~f.set \/ D.phase # "running" THEN D
    ELSE
    LET r == runCheatDetection(D.snap, f, NoCtx, "")
        D0 == [D EXCEPT !.snap = r.snap, !.overlay = r.shouldShowRedOverlay]
        pos == Tracked(pg, f)
        D1 == IF D.prev = -1 THEN D0
              ELSE IF pg = "t-test" THEN TTestMove(NoteMovement(D0, pos - D.prev), pos - D.prev)
              ELSE SprintMove(NoteMovement(D0, pos - D.prev), pos - D.prev)
    IN  IF ~extractLandmarks(f) THEN D0 ELSE [D1 EXCEPT !.prev = pos]

DrPages == {"t-test", "sprint"}

\* handleStartCamera
DrHandleStartCamera ==
    /\ page \in DrPages
    /\ drPhase = "idle"
    /\ DrAssign([DrCur EXCEPT !.phase = "ready"])
    /\ UNCHANGED <<page, combatVars, detectVars, storeVars, vjVars, beepVars,
                   sessions, now, landmarks,
                   assessVars, pushVars, scoreVars>>

\* handleGo, and the run of the effect that follows the change of phase
DrHandleGo ==
    /\ page \in DrPages
    /\ drPhase = "ready"
    /\ DrAssign(DrEffect(page, [DrCur EXCEPT !.phase = "running", !.count = 0, !.prev = -1,
                                             !.dir = "", !.movingUp = FALSE,
                                             !.lastSign = 0, !.reversals = 0],
                         landmarks))
    /\ UNCHANGED <<page, combatVars, detectVars, storeVars, vjVars, beepVars,
                   sessions, now, landmarks,
                   assessVars, pushVars, scoreVars>>

\* a new value of landmarks
DrFrame(f) ==
    /\ page \in DrPages
    /\ drReversals < MaxEvents
    /\ landmarks' = f
    /\ DrAssign(DrEffect(page, DrCur, f))
    /\ UNCHANGED <<page, combatVars, detectVars, storeVars, vjVars, beepVars,
                   sessions, now,
                   assessVars, pushVars, scoreVars>>

\* handleFinish
DrHandleFinish ==
    /\ page \in DrPages
    /\ drPhase = "running"
    /\ DrAssign([DrCur EXCEPT !.phase = "finished", !.overlay = FALSE])
    /\ UNCHANGED <<page, combatVars, detectVars, storeVars, vjVars, beepVars,
                   sessions, now, landmarks,
                   assessVars, pushVars, scoreVars>>

\* the button of the finished phase
DrAgain ==
    /\ page \in DrPages
    /\ drPhase = "finished"
    /\ DrAssign([DrCur EXCEPT !.phase = "ready"])
    /\ UNCHANGED <<page, combatVars, detectVars, storeVars, vjVars, beepVars,
                   sessions, now, landmarks,
                   assessVars, pushVars, scoreVars>>

\* frames whose hip x is p and whose ankle y is p + 40, and no person
DrillPositions == {48, 49, 50, 52}
DrillFrames ==
    {[MkFrame(170, 170, 170, q, 55, 50, 50, 30) EXCEPT !.ay = q + 40] :
         q \in DrillPositions} \cup {NoFrame}

DrNewFrame == \E f \in DrillFrames : DrFrame(f)

InitDrill ==
    /\ page \in DrPages
    /\ sessions = 0
    /\ InitCommon

NextDrill == DrHandleStartCamera \/ DrHandleGo \/ DrNewFrame \/ DrHandleFinish \/ DrAgain

SpecDrill == InitDrill /\ [][NextDrill]_vars

\* the remembered direction of a drill
DrRemembered == IF page = "t-test" THEN drDirRef ELSE drMovingUp

\* C25: while a drill is running, a frame whose movement reverses the sign of
\* the last movement beyond the 0.01 dead-zone adds exactly one to the
\* counter, every other frame adds nothing, a movement within the dead-zone
\* leaves the remembered direction alone, and the counter never decreases.
C25_OneEventPerReversal ==
    [][(drPhase = "running" /\ drPhase' = "running") =>
          /\ drCount' = drCount + (drReversals' - drReversals)
          /\ drCount' >= drCount
          /\ drLastSign' = drLastSign => DrRemembered' = DrRemembered]_vars

-----------------------------------------------------------------------------
(* pages/BeepTest.jsx.  A pending setTimeout is a record of btTimers: a     *)
(* beep of scheduleNextBeep with the level, the shuttleCount and the        *)
(* isRunning of the closure it belongs to, or the call of runLevel for the  *)
(* next level.  Timers fire in any order; the sounds are left out.          *)

\* seconds of the elapsed counter explored in one run
MaxElapsed == 40

\* LEVELS[level - 1].shuttles
LevelShuttles == <<7, 8, 8, 9, 9, 10, 10, 11, 11, 11, 12, 12, 13, 13, 13>>

NoTimer == [kind |-> "none"]
BeepTimer(level, shuttleCount, captured) ==
    [kind |-> "beep", level |-> level, shuttleCount |-> shuttleCount, captured |-> captured]
LevelTimer(level, captured) == [kind |-> "level", level |-> level, captured |-> captured]

\* finishTest and stopTest
BtEnd(timers) ==
    /\ btRunning' = FALSE
    /\ btFinished' = TRUE
    /\ btTimers' = timers \ {btBeepRef}

\* runLevel(level, 0) called from a closure whose isRunning is `captured`,
\* with `timers` pending
runLevel(level, captured, timers) ==
    IF level > Len(LevelShuttles)
    THEN /\ BtEnd(timers)
         /\ UNCHANGED btBeepRef
    ELSE /\ btTimers' = timers \cup {BeepTimer(level, 0, captured)}
         /\ btBeepRef' = BeepTimer(level, 0, captured)
         /\ UNCHANGED <<btRunning, btFinished>>

\* startTest: the Start button (neither running nor finished) and the Restart
\* button (finished)
BtStartTest ==
    /\ page = "beep-test"
    /\ ~btRunning
    /\ btTimers' = btTimers \cup {BeepTimer(1, 0, btRunning)}
    /\ btBeepRef' = BeepTimer(1, 0, btRunning)
    /\ btRunning' = TRUE
    /\ btLevel' = 1
    /\ btShuttle' = 0
    /\ btTotal' = 0
    /\ btFinished' = FALSE
    /\ btElapsed' = 0
    /\ btStopped' = FALSE
    /\ UNCHANGED <<page, combatVars, detectVars, storeVars, vjVars, drillVars, restVarsNoLib>>

\* scheduleNextBeep, called by its timeout t
scheduleNextBeep(t) ==
    /\ IF ~t.captured /\ t.shuttleCount > 0
       THEN /\ btTimers' = btTimers \ {t}
            /\ UNCHANGED <<btShuttle, btTotal, btLevel, btBeepRef>>
       ELSE /\ btShuttle' = t.shuttleCount + 1
            /\ btTotal' = btTotal + 1
            /\ IF t.shuttleCount + 1 >= LevelShuttles[t.level]
               THEN /\ btLevel' = t.level + 1
                    /\ btTimers' = (btTimers \ {t}) \cup {LevelTimer(t.level + 1, t.captured)}
                    /\ UNCHANGED btBeepRef
               ELSE /\ btTimers' = (btTimers \ {t})
                           \cup {BeepTimer(t.level, t.shuttleCount + 1, t.captured)}
                    /\ btBeepRef' = BeepTimer(t.level, t.shuttleCount + 1, t.captured)
                    /\ UNCHANGED btLevel
    /\ UNCHANGED <<btRunning, btFinished>>

\* a pending timeout fires: a beep, or the start of the next level
BtTimerFires ==
    /\ page = "beep-test"
    /\ \E t \in btTimers :
          IF t.kind = "beep" THEN scheduleNextBeep(t)
          ELSE /\ runLevel(t.level, t.captured, btTimers \ {t})
               /\ UNCHANGED <<btLevel, btShuttle, btTotal>>
    /\ UNCHANGED <<page, combatVars, detectVars, storeVars, vjVars, drillVars, restVarsNoLib,
                   btElapsed, btStopped>>

\* stopTest: the Stop button
BtStopTest ==
    /\ page = "beep-test"
    /\ btRunning
    /\ BtEnd(btTimers)
    /\ btStopped' = TRUE
    /\ UNCHANGED <<page, combatVars, detectVars, storeVars, vjVars, drillVars, restVarsNoLib,
                   btLevel, btShuttle, btTotal, btElapsed, btBeepRef>>

\* the interval of the elapsed counter
BtElapsedTick ==
    /\ page = "beep-test"
    /\ btRunning
    /\ btElapsed < MaxElapsed
    /\ btElapsed' = btElapsed + 1
    /\ UNCHANGED <<page, combatVars, detectVars, storeVars, vjVars, drillVars, restVarsNoLib,
                   btRunning, btLevel, btShuttle, btTotal, btFinished, btTimers, btBeepRef,
                   btStopped>>

InitBeep ==
    /\ page = "beep-test"
    /\ sessions = 0
    /\ InitCommon

NextBeep == BtStartTest \/ BtTimerFires \/ BtStopTest \/ BtElapsedTick

SpecBeep == InitBeep /\ [][NextBeep]_vars

\* a timeout that is due runs
SpecBeepLive == InitBeep /\ [][NextBeep]_vars /\ WF_vars(BtTimerFires)

\* C29: a started test that is never stopped reaches finished.
C29_StartedTestFinishes == ([]~btStopped) => (btRunning ~> btFinished)

-----------------------------------------------------------------------------
(* PushUpTest: the whole countdown of a session *)

\* the two frames of a push-up: arms straight, arms bent
CountdownFrames == {MkFrame(170, 170, 170, 50, 50, 50, 50, 30),
                    MkFrame(90, 90, 170, 50, 50, 50, 50, 30)}

CountdownFrame == \E f \in CountdownFrames : PuFrame(f)

InitCountdown ==
    /\ page = "pushups"
    /\ sessions = 0
    /\ InitCommon

\* the first session of the page
FirstStart == PuHandleStart /\ sessions = 0

NextCountdown == FirstStart \/ CountdownFrame \/ PuTick \/ PuHandleStop

SpecCountdown == InitCountdown /\ [][NextCountdown]_vars

\* the interval keeps ticking while the session is active
SpecCountdownLive == InitCountdown /\ [][NextCountdown]_vars /\ WF_vars(PuTick)

\* C30: a session starts with the countdown at 60; a tick takes one off and
\* the countdown stays within 0..60; the tick that brings it to 0 leaves the
\* session inactive and finished; while the session is inactive no step
\* changes reps, incompleteReps or the form score; and an active session
\* becomes inactive and finished.
C30_CountdownEndsSession ==
    /\ [][/\ (~puActive /\ puActive') => puTimer' = 60
          /\ puTimer' # puTimer =>
                \/ ~puActive /\ puActive'
                \/ puActive /\ puTimer > 0 /\ puTimer' = puTimer - 1
          /\ puTimer' \in 0..60
          /\ (puTimer > 0 /\ puTimer' = 0) => (~puActive' /\ puFinished')
          /\ (~puActive /\ ~puActive') =>
                UNCHANGED <<puReps, puIncomplete, puFormScore>>]_vars
    /\ puActive ~> (~puActive /\ puFinished)

\* the countdown of a session with a counted rep ran out
C30_CountdownRanOut ==
    /\ puTimer = 0
    /\ ~puActive
    /\ puFinished
    /\ puReps >= 1
    /\ landmarks.set /\ landmarks.l = 90

====
